---- MODULE Spec2Model ----
(***************************************************************************)
(* Model of the indicator computation engine:                              *)
(*   app/indicators/eval_engine.py  (ExpressionValidator, SafeEval)       *)
(*   app/indicators/compute.py      (ComputeEngine: execute_indicator,    *)
(*                                   parse_timeframe, resample_ohlcv)      *)
(*   app/function_registry.py       (PYTHON_FUNCTIONS, load_function_...)  *)
(*   app/indicators/service.py      (IndicatorService)                    *)
(* Expressions are the trees ast.parse(expr, mode="eval") returns; a node  *)
(* is a record whose field kind is the ast class name.                     *)
(***************************************************************************)
EXTENDS Integers, Sequences, FiniteSets, TLC

VARIABLES
    vexpr,      \* validate_expr: the parsed expression handed to the validator
    verr,       \* validate_expr: "pending", "none" (returned) or the ValueError raised
    eexpr,      \* safe_eval: the parsed expression
    eenv0,      \* safe_eval: the caller's env dict as it was at the call
    eenv,       \* safe_eval: the caller's env dict (the object passed as env)
    eres,       \* safe_eval: the outcome [val, err], err "pending" before the call
    definition, \* execute_indicator: the definition dict (parameters, exec_plan)
    params,     \* execute_indicator: the runtime overrides
    xenv,       \* execute_indicator: env
    xpc,        \* execute_indicator: "start", "steps", "formula", "done", "failed"
    xi,         \* execute_indicator: index of the step the loop is at
    xout,       \* execute_indicator: the value returned or the error raised, and where
    catalog,    \* load_function_registry: the rows (name, impl_type) of indicator_functions
    func_registry, \* load_function_registry: the registry dict being built
    rpc,        \* load_function_registry: "loading", "built", "failed", then "called"
    ri,         \* load_function_registry: index of the row the loop is at
    rerr,       \* load_function_registry: the error raised, "none" so far
    fout,       \* a registry entry applied to arguments: the call and its outcome
    timeframe,  \* resample_ohlcv: the timeframe label
    bars,       \* resample_ohlcv: df, the input bars in timestamp order
    rsout,      \* resample_ohlcv: the frame returned or the error raised
    store,      \* IndicatorService: the rows of the technical_indicators table
    svcLog,     \* IndicatorService: the calls made so far with their outcomes
    creators,   \* create_indicator: the concurrent calls, each with its position
    calcIn,     \* calculate_indicator: the value execute_indicator returned
    calcOut,    \* calculate_indicator: the result map or the error raised
    threads,    \* execute_indicator: the concurrent invocations, each with its locals
    shared      \* execute_indicator: the registry and the definition the invocations share

vars == <<vexpr, verr, eexpr, eenv0, eenv, eres, definition, params, xenv, xpc, xi, xout,
          catalog, func_registry, rpc, ri, rerr, fout, timeframe, bars, rsout, store, svcLog,
          creators, calcIn, calcOut, threads, shared>>
valVars == <<vexpr, verr>>
evalVars == <<eexpr, eenv0, eenv, eres>>
execVars == <<definition, params, xenv, xpc, xi, xout>>
regVars == <<catalog, func_registry, rpc, ri, rerr, fout>>
rsVars == <<timeframe, bars, rsout>>
svcVars == <<store, svcLog>>
raceVars == <<creators>>
calcVars == <<calcIn, calcOut>>
concVars == <<threads, shared>>
\* the variables of the other components, which an operation leaves alone
notValVars == <<evalVars, execVars, regVars, rsVars, svcVars, raceVars, calcVars, concVars>>
notEvalVars == <<valVars, execVars, regVars, rsVars, svcVars, raceVars, calcVars, concVars>>
notExecVars == <<valVars, evalVars, regVars, rsVars, svcVars, raceVars, calcVars, concVars>>
notRegVars == <<valVars, evalVars, execVars, rsVars, svcVars, raceVars, calcVars, concVars>>
notRsVars == <<valVars, evalVars, execVars, regVars, svcVars, raceVars, calcVars, concVars>>
notSvcVars == <<valVars, evalVars, execVars, regVars, rsVars, raceVars, calcVars, concVars>>
notRaceVars == <<valVars, evalVars, execVars, regVars, rsVars, svcLog, calcVars, concVars>>
notCalcVars == <<valVars, evalVars, execVars, regVars, rsVars, svcVars, raceVars, concVars>>
notConcVars == <<valVars, evalVars, execVars, regVars, rsVars, svcVars, raceVars, calcVars>>

(***************************************************************************)
(* Bounds of the model.                                                    *)
(***************************************************************************)
\* nesting depth of the expressions handed to validate_expr
MaxDepth == 2
\* number of steps of an exec_plan
MaxSteps == 2
\* number of rows of the indicator_functions catalog
MaxRows == 2
\* largest window a registry function is called with
MaxWindow == 3
\* number of characters of a timeframe label
MaxLabelLen == 3
\* the one-minute bars lie in the first NumMinutes minutes of a day
NumMinutes == 10
\* number of those minutes an input frame may lack
MaxMissing == 2
\* number of calls made to the indicator service
MaxCalls == 2

(***************************************************************************)
(* Python values.  A number is the rational n/d; d = 0 encodes the float   *)
(* specials (1/0 = inf, -1/0 = -inf, 0/0 = nan).  np marks a numpy scalar  *)
(* (an element taken out of a pandas Series), whose arithmetic does not    *)
(* raise on a zero divisor.                                                *)
(***************************************************************************)
Rat(n, d) == [n |-> n, d |-> d]
PyNum(n) == [k |-> "num", x |-> Rat(n, 1), np |-> FALSE]
Scalar(x, np) == [k |-> "num", x |-> x, np |-> np]
Series(xs) == [k |-> "series", xs |-> xs]
PyList(items) == [k |-> "list", items |-> items]
PyStr(cs) == [k |-> "str", cs |-> cs]
None == [k |-> "None"]

(***************************************************************************)
(* ast nodes.                                                              *)
(***************************************************************************)
Name(id) == [kind |-> "Name", id |-> id, ctx |-> "Load"]
NameStore(id) == [kind |-> "Name", id |-> id, ctx |-> "Store"]
Constant(v) == [kind |-> "Constant", value |-> v]
BinOp(op, l, r) == [kind |-> "BinOp", left |-> l, op |-> op, right |-> r]
UnaryOp(op, e) == [kind |-> "UnaryOp", op |-> op, operand |-> e]
Keyword(arg, v) == [kind |-> "keyword", arg |-> arg, value |-> v]
Call(f, args, kws) == [kind |-> "Call", func |-> f, args |-> args, keywords |-> kws]
ListNode(elts) == [kind |-> "List", elts |-> elts]
TupleNode(elts) == [kind |-> "Tuple", elts |-> elts]
Comprehension(t, it, ifs) == [kind |-> "comprehension", target |-> t, iter |-> it, ifs |-> ifs]
ListComp(elt, gens) == [kind |-> "ListComp", elt |-> elt, generators |-> gens]
Attribute(v, attr) == [kind |-> "Attribute", value |-> v, attr |-> attr]
Subscript(v, s) == [kind |-> "Subscript", value |-> v, slice |-> s]
Compare(l, r) == [kind |-> "Compare", left |-> l, comparator |-> r]
Lambda(b) == [kind |-> "Lambda", body |-> b]
Expression(b) == [kind |-> "Expression", body |-> b]
\* an operator or context node (ast.Add(), ast.Load(), ...): no fields
Leaf(kind) == [kind |-> kind]

\* the child nodes of a node in the order of its _fields, as
\* ast.NodeVisitor.generic_visit iterates them
Children(node) ==
    CASE node.kind = "Expression" -> <<node.body>>
      [] node.kind = "BinOp" -> <<node.left, Leaf(node.op), node.right>>
      [] node.kind = "UnaryOp" -> <<Leaf(node.op), node.operand>>
      [] node.kind \in {"List", "Tuple"} -> node.elts \o <<Leaf("Load")>>
      [] node.kind = "Call" -> <<node.func>> \o node.args \o node.keywords
      [] node.kind = "keyword" -> <<node.value>>
      [] node.kind = "ListComp" -> <<node.elt>> \o node.generators
      [] node.kind = "comprehension" -> <<node.target, node.iter>> \o node.ifs
      [] node.kind = "Attribute" -> <<node.value, Leaf("Load")>>
      [] node.kind = "Subscript" -> <<node.value, node.slice, Leaf("Load")>>
      [] node.kind = "Compare" -> <<node.left, node.comparator>>
      [] node.kind = "Lambda" -> <<node.body>>
      [] node.kind = "Name" -> <<Leaf(node.ctx)>>
      [] OTHER -> <<>>

(***************************************************************************)
(* eval_engine.py: ExpressionValidator.  A visit returns the ValueError it *)
(* raised ("none" when it returned) and self.local_vars as it left it.     *)
(***************************************************************************)
ALLOWED_NODES_NoMod ==
    {"Expression", "Call", "BinOp", "UnaryOp", "Name", "Load",
     "Add", "Sub", "Mult", "Div", "Pow", "USub",
     "Constant", "Tuple", "List", "ListComp", "comprehension"}

ALLOWED_NODES ==
    {"Expression", "Call", "BinOp", "UnaryOp", "Name", "Load",
     "Add", "Sub", "Mult", "Div", "Pow", "Mod", "USub",
     "Constant", "Tuple", "List", "ListComp", "comprehension"}

VOk(lv) == [err |-> "none", lv |-> lv]
VRaise(e, lv) == [err |-> e, lv |-> lv]

RECURSIVE ValidatorVisit(_, _, _, _)
RECURSIVE ValidatorVisitAll(_, _, _, _, _)

\* "for n in nodes: self.visit(n)", from the i-th node on
ValidatorVisitAll(nodes, i, lv, funcs, avars) ==
    IF i > Len(nodes) THEN VOk(lv)
    ELSE LET r == ValidatorVisit(nodes[i], lv, funcs, avars)
         IN  IF r.err # "none" THEN r
             ELSE ValidatorVisitAll(nodes, i + 1, r.lv, funcs, avars)

Validator_visit_Call(node, lv, funcs, avars) ==
    IF node.func.kind # "Name" THEN VRaise("OnlyFunctionCalls", lv)
    ELSE IF node.func.id \notin funcs THEN VRaise("FunctionNotRegistered", lv)
    ELSE ValidatorVisitAll(node.args, 1, lv, funcs, avars)

Validator_visit_Name(node, lv, funcs, avars) ==
    IF node.ctx = "Load"
    THEN IF node.id \notin avars /\ node.id \notin lv
         THEN VRaise("UnknownVariable", lv)
         ELSE VOk(lv)
    ELSE IF node.ctx = "Store" THEN VOk(lv \cup {node.id})
    ELSE VOk(lv)

Validator_visit_ListComp(node, lv, funcs, avars) ==
    LET g == ValidatorVisitAll(node.generators, 1, lv, funcs, avars)
    IN  IF g.err # "none" THEN g
        ELSE ValidatorVisit(node.elt, g.lv, funcs, avars)

Validator_visit_comprehension(node, lv, funcs, avars) ==
    LET lv1 == IF node.target.kind = "Name" THEN lv \cup {node.target.id} ELSE lv
        it == ValidatorVisit(node.iter, lv1, funcs, avars)
    IN  IF it.err # "none" THEN it
        ELSE ValidatorVisitAll(node.ifs, 1, it.lv, funcs, avars)

Validator_generic_visit(node, lv, funcs, avars) ==
    IF node.kind \notin ALLOWED_NODES THEN VRaise("DisallowedSyntax", lv)
    ELSE ValidatorVisitAll(Children(node), 1, lv, funcs, avars)

\* ast.NodeVisitor.visit: visit_<ClassName> when the class defines it
ValidatorVisit(node, lv, funcs, avars) ==
    CASE node.kind = "Call" -> Validator_visit_Call(node, lv, funcs, avars)
      [] node.kind = "Name" -> Validator_visit_Name(node, lv, funcs, avars)
      [] node.kind = "ListComp" -> Validator_visit_ListComp(node, lv, funcs, avars)
      [] node.kind = "comprehension" -> Validator_visit_comprehension(node, lv, funcs, avars)
      [] OTHER -> Validator_generic_visit(node, lv, funcs, avars)

\* validate_expr on the tree ast.parse returned: "none" or the error raised
validate_expr(tree, funcs, avars) ==
    ValidatorVisit(Expression(tree), {}, funcs, avars).err

(***************************************************************************)
(* Arithmetic on numbers (Python int/float, numpy float64), exact on the   *)
(* rationals and IEEE-754 on the specials.                                 *)
(***************************************************************************)
NaN == Rat(0, 0)
Inf == Rat(1, 0)
NegInf == Rat(-1, 0)
Sign(n) == IF n > 0 THEN 1 ELSE IF n < 0 THEN -1 ELSE 0
AbsInt(n) == IF n < 0 THEN -n ELSE n
IsNaN(x) == x.d = 0 /\ x.n = 0
IsInf(x) == x.d = 0 /\ x.n # 0
IsFinite(x) == x.d # 0
IsZero(x) == x.d # 0 /\ x.n = 0
IsInteger(x) == x.d = 1

RECURSIVE GCD(_, _)
GCD(a, b) == IF b = 0 THEN a ELSE GCD(b, a % b)

\* n/d in lowest terms with a positive denominator (d # 0)
Norm(n, d) ==
    LET s == IF d < 0 THEN -1 ELSE 1
        g == GCD(AbsInt(n), AbsInt(d))
    IN  Rat((s * n) \div g, (s * d) \div g)

NumNeg(x) == Rat(-x.n, x.d)

NumAdd(x, y) ==
    IF IsNaN(x) \/ IsNaN(y) THEN NaN
    ELSE IF IsInf(x) /\ IsInf(y) THEN (IF x.n = y.n THEN x ELSE NaN)
    ELSE IF IsInf(x) THEN x
    ELSE IF IsInf(y) THEN y
    ELSE Norm(x.n * y.d + y.n * x.d, x.d * y.d)

NumSub(x, y) == NumAdd(x, NumNeg(y))

NumMul(x, y) ==
    IF IsNaN(x) \/ IsNaN(y) THEN NaN
    ELSE IF IsInf(x) \/ IsInf(y)
         THEN (IF IsZero(x) \/ IsZero(y) THEN NaN ELSE Rat(Sign(x.n) * Sign(y.n), 0))
    ELSE Norm(x.n * y.n, x.d * y.d)

\* IEEE division: a zero divisor gives an infinity or nan, never an error
NumDiv(x, y) ==
    IF IsNaN(x) \/ IsNaN(y) THEN NaN
    ELSE IF IsInf(y) THEN (IF IsInf(x) THEN NaN ELSE Rat(0, 1))
    ELSE IF IsZero(y) THEN (IF IsZero(x) THEN NaN ELSE Rat(Sign(x.n), 0))
    ELSE IF IsInf(x) THEN Rat(Sign(x.n) * Sign(y.n), 0)
    ELSE Norm(x.n * y.d, x.d * y.n)

RECURSIVE NumPowNat(_, _)
NumPowNat(x, e) == IF e = 0 THEN Rat(1, 1) ELSE NumMul(x, NumPowNat(x, e - 1))

\* x ** y for an integral exponent y
NumPow(x, y) ==
    IF y.n >= 0 THEN NumPowNat(x, y.n)
    ELSE NumDiv(Rat(1, 1), NumPowNat(x, -y.n))

NumAbs(x) == Rat(AbsInt(x.n), x.d)

\* the arithmetic of one operator node on two numbers
NumOp(op, x, y) ==
    CASE op = "Add" -> NumAdd(x, y)
      [] op = "Sub" -> NumSub(x, y)
      [] op = "Mult" -> NumMul(x, y)
      [] op = "Div" -> NumDiv(x, y)
      [] op = "Pow" -> NumPow(x, y)

Val(v) == [val |-> v, err |-> "none"]
Raise(e) == [val |-> None, err |-> e]

\* left <op> right on two Python scalars: int/float arithmetic raises
\* ZeroDivisionError where numpy's returns inf or nan
PyScalarOp(op, x, y) ==
    IF op = "Div" /\ IsZero(y) THEN Raise("ZeroDivisionError")
    ELSE IF op = "Pow" /\ ~IsInteger(y) THEN Raise("Unmodelled")
    ELSE IF op = "Pow" /\ IsZero(x) /\ y.n < 0 THEN Raise("ZeroDivisionError")
    ELSE Val(Scalar(NumOp(op, x, y), FALSE))

NpScalarOp(op, x, y) ==
    IF op = "Pow" /\ ~IsInteger(y) THEN Raise("Unmodelled")
    ELSE Val(Scalar(NumOp(op, x, y), TRUE))

IsNumSeq(items) == \A i \in 1..Len(items) : items[i].k = "num"
\* the numbers of an array-like operand (Series, ndarray, list of numbers)
ArrayOf(v) ==
    IF v.k = "series" THEN v.xs ELSE [i \in 1..Len(v.items) |-> v.items[i].x]

\* elementwise numpy arithmetic of two equally long arrays
ElementwiseOp(op, xs, ys) ==
    IF op = "Pow" /\ \E i \in 1..Len(ys) : ~IsInteger(ys[i])
    THEN Raise("Unmodelled")
    ELSE Val(Series([i \in 1..Len(xs) |-> NumOp(op, xs[i], ys[i])]))

Broadcast(x, n) == [i \in 1..n |-> x]

RECURSIVE Repeat(_, _)
Repeat(s, n) == IF n <= 0 THEN <<>> ELSE s \o Repeat(s, n - 1)

IsPyInt(v) == v.k = "num" /\ ~v.np /\ IsInteger(v.x)
IsArrayLike(v) == v.k = "series" \/ (v.k = "list" /\ IsNumSeq(v.items))

\* Python's left <op> right for op in Add, Sub, Mult, Div, Pow
BinaryOpValues(op, l, r) ==
    CASE l.k = "num" /\ r.k = "num" ->
            IF l.np \/ r.np THEN NpScalarOp(op, l.x, r.x) ELSE PyScalarOp(op, l.x, r.x)
      [] l.k = "series" /\ r.k = "num" ->
            ElementwiseOp(op, l.xs, Broadcast(r.x, Len(l.xs)))
      [] l.k = "num" /\ r.k = "series" ->
            ElementwiseOp(op, Broadcast(l.x, Len(r.xs)), r.xs)
      [] l.k = "series" /\ r.k = "series" ->
            IF Len(l.xs) = Len(r.xs) THEN ElementwiseOp(op, l.xs, r.xs)
            ELSE Raise("Unmodelled")
      [] (l.k = "series" /\ r.k = "list") \/ (l.k = "list" /\ r.k = "series") ->
            IF ~IsArrayLike(l) \/ ~IsArrayLike(r) THEN Raise("TypeError")
            ELSE IF Len(ArrayOf(l)) # Len(ArrayOf(r)) THEN Raise("ValueError")
            ELSE ElementwiseOp(op, ArrayOf(l), ArrayOf(r))
      [] l.k = "list" /\ r.k = "num" /\ r.np ->
            IF ~IsArrayLike(l) THEN Raise("TypeError")
            ELSE ElementwiseOp(op, ArrayOf(l), Broadcast(r.x, Len(l.items)))
      [] l.k = "num" /\ l.np /\ r.k = "list" ->
            IF ~IsArrayLike(r) THEN Raise("TypeError")
            ELSE ElementwiseOp(op, Broadcast(l.x, Len(r.items)), ArrayOf(r))
      [] l.k = "list" /\ r.k = "list" ->
            IF op = "Add" THEN Val(PyList(l.items \o r.items)) ELSE Raise("TypeError")
      [] l.k = "list" /\ r.k = "num" /\ ~r.np ->
            IF op = "Mult" /\ IsPyInt(r) THEN Val(PyList(Repeat(l.items, r.x.n)))
            ELSE Raise("TypeError")
      [] l.k = "num" /\ ~l.np /\ r.k = "list" ->
            IF op = "Mult" /\ IsPyInt(l) THEN Val(PyList(Repeat(r.items, l.x.n)))
            ELSE Raise("TypeError")
      [] l.k = "str" /\ r.k = "str" ->
            IF op = "Add" THEN Val(PyStr(l.cs \o r.cs)) ELSE Raise("TypeError")
      [] l.k = "str" /\ r.k = "num" ->
            IF op = "Mult" /\ IsPyInt(r) THEN Val(PyStr(Repeat(l.cs, r.x.n)))
            ELSE Raise("TypeError")
      [] l.k = "num" /\ r.k = "str" ->
            IF op = "Mult" /\ IsPyInt(l) THEN Val(PyStr(Repeat(r.cs, l.x.n)))
            ELSE Raise("TypeError")
      [] OTHER -> Raise("TypeError")

\* Python's -val
NegateValue(v) ==
    CASE v.k = "num" -> Val(Scalar(NumNeg(v.x), v.np))
      [] v.k = "series" -> Val(Series([i \in 1..Len(v.xs) |-> NumNeg(v.xs[i])]))
      [] OTHER -> Raise("TypeError")

\* the values "for val in iterable" draws: the elements of a Series are
\* numpy scalars
IterateValue(v) ==
    CASE v.k = "series" -> [val |-> [i \in 1..Len(v.xs) |-> Scalar(v.xs[i], TRUE)], err |-> "none"]
      [] v.k = "list" -> [val |-> v.items, err |-> "none"]
      [] v.k = "str" -> [val |-> [i \in 1..Len(v.cs) |-> PyStr(<<v.cs[i]>>)], err |-> "none"]
      [] OTHER -> [val |-> <<>>, err |-> "TypeError"]

(***************************************************************************)
(* function_registry.py: PYTHON_FUNCTIONS, applied to evaluated arguments. *)
(***************************************************************************)
\* int(n) of a finite number: truncation toward zero
TruncInt(x) == Sign(x.n) * (AbsInt(x.n) \div x.d)

\* int(n) for the window argument
IntOf(v) ==
    CASE v.k = "num" ->
            IF IsNaN(v.x) THEN [val |-> 0, err |-> "ValueError"]
            ELSE IF IsInf(v.x) THEN [val |-> 0, err |-> "OverflowError"]
            ELSE [val |-> TruncInt(v.x), err |-> "none"]
      [] v.k = "str" -> [val |-> 0, err |-> "ValueError"]
      [] OTHER -> [val |-> 0, err |-> "TypeError"]

RECURSIVE SumNums(_, _, _)
SumNums(xs, lo, hi) == IF lo > hi THEN Rat(0, 1) ELSE NumAdd(xs[lo], SumNums(xs, lo + 1, hi))

\* a rolling mean that averages whatever part of the window exists
RollingMean_PartialWindow(xs, n) ==
    [i \in 1..Len(xs) |->
        IF n >= 1
        THEN LET lo == IF i - n + 1 < 1 THEN 1 ELSE i - n + 1
             IN  NumDiv(SumNums(xs, lo, i), Rat(i - lo + 1, 1))
        ELSE NaN]

\* s.rolling(window=n, min_periods=n).mean(): a value only where the window
\* holds n observations, none of them NaN
RollingMean(xs, n) ==
    [i \in 1..Len(xs) |->
        IF n >= 1 /\ i >= n /\ \A j \in (i - n + 1)..i : ~IsNaN(xs[j])
        THEN NumDiv(SumNums(xs, i - n + 1, i), Rat(n, 1))
        ELSE NaN]

PY_sma(args) ==
    IF Len(args) # 2 THEN Raise("TypeError")
    ELSE IF args[1].k # "series" THEN Raise("AttributeError")
    ELSE LET n == IntOf(args[2])
         IN  IF n.err # "none" THEN Raise(n.err)
             ELSE IF n.val < 0 THEN Raise("ValueError")
             ELSE Val(Series(RollingMean(args[1].xs, n.val)))

PY_abs(args) ==
    IF Len(args) # 1 THEN Raise("TypeError")
    ELSE IF args[1].k # "series" THEN Raise("AttributeError")
    ELSE Val(Series([i \in 1..Len(args[1].xs) |-> NumAbs(args[1].xs[i])]))

PY_shift(args) ==
    IF Len(args) # 2 THEN Raise("TypeError")
    ELSE IF args[1].k # "series" THEN Raise("AttributeError")
    ELSE LET n == IntOf(args[2])
             xs == args[1].xs
         IN  IF n.err # "none" THEN Raise(n.err)
             ELSE Val(Series([i \in 1..Len(xs) |->
                        IF i - n.val \in 1..Len(xs) THEN xs[i - n.val] ELSE NaN]))

HasNaN(xs) == \E i \in 1..Len(xs) : IsNaN(xs[i])

\* x < y on numbers that are not NaN
NumLess(x, y) ==
    IF IsFinite(x) /\ IsFinite(y) THEN x.n * y.d < y.n * x.d
    ELSE IF IsInf(x) /\ IsInf(y) THEN x.n < y.n
    ELSE IF IsInf(x) THEN x.n < 0
    ELSE y.n > 0

RECURSIVE MaxNums(_, _, _)
MaxNums(xs, lo, hi) ==
    IF lo = hi THEN xs[lo]
    ELSE LET m == MaxNums(xs, lo + 1, hi) IN IF NumLess(xs[lo], m) THEN m ELSE xs[lo]

RECURSIVE MinNums(_, _, _)
MinNums(xs, lo, hi) ==
    IF lo = hi THEN xs[lo]
    ELSE LET m == MinNums(xs, lo + 1, hi) IN IF NumLess(m, xs[lo]) THEN m ELSE xs[lo]

RECURSIVE SumSqDev(_, _, _, _)
\* sum of (x - mean)^2 over xs[lo..hi]
SumSqDev(xs, mean, lo, hi) ==
    IF lo > hi THEN Rat(0, 1)
    ELSE LET dv == NumSub(xs[lo], mean)
         IN  NumAdd(NumMul(dv, dv), SumSqDev(xs, mean, lo + 1, hi))

\* integer square root
ISqrt(n) == CHOOSE r \in 0..n : r * r <= n /\ (r + 1) * (r + 1) > n

\* the square root of a finite x >= 0: a rational when x is the square of
\* one, else the surd itself, the record of x marked root (a finite value no
\* arithmetic of the model is applied to)
NumSqrt(x) ==
    IF ISqrt(x.n) * ISqrt(x.n) = x.n /\ ISqrt(x.d) * ISqrt(x.d) = x.d
    THEN Rat(ISqrt(x.n), ISqrt(x.d))
    ELSE [n |-> x.n, d |-> x.d, root |-> TRUE]

\* the sample standard deviation (ddof = 1) of xs[lo..hi]; nan for one value
StdNums(xs, lo, hi) ==
    LET cnt == hi - lo + 1
        mean == NumDiv(SumNums(xs, lo, hi), Rat(cnt, 1))
        var == NumDiv(SumSqDev(xs, mean, lo, hi), Rat(cnt - 1, 1))
    IN  IF IsFinite(var) THEN NumSqrt(var) ELSE NaN

\* s.rolling(window=n, min_periods=n).<agg>(): a value only where the window
\* holds n observations, none of them NaN
RollingAgg(xs, n, agg) ==
    [i \in 1..Len(xs) |->
        IF n >= 1 /\ i >= n /\ \A j \in (i - n + 1)..i : ~IsNaN(xs[j])
        THEN CASE agg = "max" -> MaxNums(xs, i - n + 1, i)
               [] agg = "min" -> MinNums(xs, i - n + 1, i)
               [] agg = "std" -> StdNums(xs, i - n + 1, i)
        ELSE NaN]

RECURSIVE EwmAt(_, _, _)
\* ewm(alpha, adjust=False).mean() at index i: y[1] = x[1],
\* y[i] = (1 - alpha) * y[i-1] + alpha * x[i]
EwmAt(xs, alpha, i) ==
    IF i = 1 THEN xs[1]
    ELSE NumAdd(NumMul(NumSub(Rat(1, 1), alpha), EwmAt(xs, alpha, i - 1)),
                NumMul(alpha, xs[i]))

\* .ewm(..., min_periods=mp).mean() of a series without NaN: the value at
\* index i is kept once i observations reach min_periods (pandas takes
\* max(min_periods, 1))
EwmMean(xs, alpha, mp) ==
    [i \in 1..Len(xs) |-> IF i >= mp THEN EwmAt(xs, alpha, i) ELSE NaN]

\* "ema": s.ewm(span=int(n), adjust=False).mean(), no min_periods
PY_ema(args) ==
    IF Len(args) # 2 THEN Raise("TypeError")
    ELSE IF args[1].k # "series" THEN Raise("AttributeError")
    ELSE LET n == IntOf(args[2])
         IN  IF n.err # "none" THEN Raise(n.err)
             ELSE IF n.val < 1 THEN Raise("ValueError")
             ELSE IF HasNaN(args[1].xs) THEN Raise("Unmodelled")
             ELSE Val(Series(EwmMean(args[1].xs, Norm(2, n.val + 1), 0)))

\* "wilder": s.ewm(alpha=1/int(n), adjust=False, min_periods=int(n)).mean()
PY_wilder(args) ==
    IF Len(args) # 2 THEN Raise("TypeError")
    ELSE IF args[1].k # "series" THEN Raise("AttributeError")
    ELSE LET n == IntOf(args[2])
         IN  IF n.err # "none" THEN Raise(n.err)
             ELSE IF n.val = 0 THEN Raise("ZeroDivisionError")
             ELSE IF n.val < 0 THEN Raise("ValueError")
             ELSE IF HasNaN(args[1].xs) THEN Raise("Unmodelled")
             ELSE Val(Series(EwmMean(args[1].xs, Norm(1, n.val), n.val)))

\* "rolling_max", "rolling_min", "stdev":
\* s.rolling(window=int(n), min_periods=int(n)).max() / .min() / .std()
PY_rolling(args, agg) ==
    IF Len(args) # 2 THEN Raise("TypeError")
    ELSE IF args[1].k # "series" THEN Raise("AttributeError")
    ELSE LET n == IntOf(args[2])
         IN  IF n.err # "none" THEN Raise(n.err)
             ELSE IF n.val < 0 THEN Raise("ValueError")
             ELSE Val(Series(RollingAgg(args[1].xs, n.val, agg)))

\* the keys of PYTHON_FUNCTIONS
PYTHON_FUNCTION_NAMES ==
    {"sma", "ema", "wilder", "diff", "cumsum", "max", "min", "abs", "shift",
     "rolling_max", "rolling_min", "stdev"}

\* registry[fname](*args) for a registry entry taken from PYTHON_FUNCTIONS
PYTHON_FUNCTIONS(fname, args) ==
    CASE fname = "sma" -> PY_sma(args)
      [] fname = "ema" -> PY_ema(args)
      [] fname = "wilder" -> PY_wilder(args)
      [] fname = "abs" -> PY_abs(args)
      [] fname = "shift" -> PY_shift(args)
      [] fname \in {"rolling_max", "rolling_min", "stdev"} ->
            PY_rolling(args, CASE fname = "rolling_max" -> "max"
                               [] fname = "rolling_min" -> "min"
                               [] fname = "stdev" -> "std")
      [] OTHER -> Raise("Unmodelled")

(***************************************************************************)
(* eval_engine.py: SafeEval.  The evaluator's state is self.env, whether   *)
(* self.env still is the caller's dict object (alias), and the caller's    *)
(* dict.  A visit returns [val, err, st].                                  *)
(***************************************************************************)
Put(env, key, v) == [x \in (DOMAIN env) \cup {key} |-> IF x = key THEN v ELSE env[x]]

\* self.env[key] = v
EnvStore(st, key, v) ==
    LET e == Put(st.env, key, v)
    IN  [env |-> e, alias |-> st.alias, caller |-> IF st.alias THEN e ELSE st.caller]

Ret(v, st) == [val |-> v, err |-> "none", st |-> st]
\* the value or the exception of r, with the evaluator's state st
WithState(r, st) == [val |-> r.val, err |-> r.err, st |-> st]
Exc(e, st) == [val |-> None, err |-> e, st |-> st]

RECURSIVE SafeEvalVisit(_, _, _)
RECURSIVE SafeEvalArgs(_, _, _, _, _)
RECURSIVE SafeEvalGenerators(_, _, _, _, _, _)
RECURSIVE SafeEvalLoop(_, _, _, _, _, _, _)

\* [self.visit(a) for a in nodes], from the i-th on, appended to acc
SafeEvalArgs(nodes, i, acc, st, registry) ==
    IF i > Len(nodes) THEN Ret(acc, st)
    ELSE LET r == SafeEvalVisit(nodes[i], st, registry)
         IN  IF r.err # "none" THEN r
             ELSE SafeEvalArgs(nodes, i + 1, Append(acc, r.val), r.st, registry)

SafeEval_visit_Call(node, st, registry) ==
    IF node.func.kind # "Name" THEN Exc("AttributeError", st)
    ELSE LET a == SafeEvalArgs(node.args, 1, <<>>, st, registry)
         IN  IF a.err # "none" THEN a
             ELSE IF node.func.id \notin DOMAIN registry THEN Exc("KeyError", a.st)
             ELSE WithState(PYTHON_FUNCTIONS(registry[node.func.id], a.val), a.st)

SafeEval_visit_Name(node, st, registry) ==
    IF node.id \in DOMAIN st.env THEN Ret(st.env[node.id], st) ELSE Exc("KeyError", st)

SafeEval_visit_Constant(node, st, registry) == Ret(node.value, st)

SafeEval_visit_BinOp_SubSwapped(node, st, registry) ==
    LET l == SafeEvalVisit(node.left, st, registry)
    IN  IF l.err # "none" THEN l
        ELSE LET r == SafeEvalVisit(node.right, l.st, registry)
             IN  IF r.err # "none" THEN r
                 ELSE IF node.op \in {"Add", "Sub", "Mult", "Div", "Pow"}
                      THEN WithState(IF node.op = "Sub"
                                     THEN BinaryOpValues(node.op, r.val, l.val)
                                     ELSE BinaryOpValues(node.op, l.val, r.val), r.st)
                      ELSE Exc("UnsupportedOperator", r.st)

SafeEval_visit_BinOp(node, st, registry) ==
    LET l == SafeEvalVisit(node.left, st, registry)
    IN  IF l.err # "none" THEN l
        ELSE LET r == SafeEvalVisit(node.right, l.st, registry)
             IN  IF r.err # "none" THEN r
                 ELSE IF node.op \in {"Add", "Sub", "Mult", "Div", "Pow"}
                      THEN WithState(BinaryOpValues(node.op, l.val, r.val), r.st)
                      ELSE Exc("UnsupportedOperator", r.st)

SafeEval_visit_UnaryOp(node, st, registry) ==
    LET o == SafeEvalVisit(node.operand, st, registry)
    IN  IF o.err # "none" THEN o
        ELSE IF node.op = "USub"
             THEN WithState(NegateValue(o.val), o.st)
             ELSE o

\* "for val in iterable: ...", from the j-th value on
SafeEvalLoop(node, gen, items, j, results, st, registry) ==
    IF j > Len(items) THEN Ret(results, st)
    ELSE IF gen.target.kind # "Name" THEN Exc("UnsupportedTarget", st)
    ELSE LET e == SafeEvalVisit(node.elt, EnvStore(st, gen.target.id, items[j]), registry)
         IN  IF e.err # "none" THEN e
             ELSE SafeEvalLoop(node, gen, items, j + 1, Append(results, e.val), e.st, registry)

\* "for gen in node.generators: ...", from the g-th generator on; then
\* self.env = saved_env
SafeEvalGenerators(node, g, saved, results, st, registry) ==
    IF g > Len(node.generators)
    THEN Ret(PyList(results), [env |-> saved, alias |-> FALSE, caller |-> st.caller])
    ELSE LET gen == node.generators[g]
             it == SafeEvalVisit(gen.iter, st, registry)
         IN  IF it.err # "none" THEN it
             ELSE LET items == IterateValue(it.val)
                  IN  IF items.err # "none" THEN Exc(items.err, it.st)
                      ELSE LET body == SafeEvalLoop(node, gen, items.val, 1, results, it.st, registry)
                           IN  IF body.err # "none" THEN body
                               ELSE SafeEvalGenerators(node, g + 1, saved, body.val, body.st, registry)

SafeEval_visit_ListComp(node, st, registry) ==
    SafeEvalGenerators(node, 1, st.env, <<>>, st, registry)

\* ast.NodeVisitor.generic_visit: visits the children, returns None
SafeEval_generic_visit(node, st, registry) ==
    LET r == SafeEvalArgs(Children(node), 1, <<>>, st, registry)
    IN  IF r.err # "none" THEN r ELSE Ret(None, r.st)

SafeEvalVisit(node, st, registry) ==
    CASE node.kind = "Call" -> SafeEval_visit_Call(node, st, registry)
      [] node.kind = "Name" -> SafeEval_visit_Name(node, st, registry)
      [] node.kind = "Constant" -> SafeEval_visit_Constant(node, st, registry)
      [] node.kind = "BinOp" -> SafeEval_visit_BinOp(node, st, registry)
      [] node.kind = "UnaryOp" -> SafeEval_visit_UnaryOp(node, st, registry)
      [] node.kind = "ListComp" -> SafeEval_visit_ListComp(node, st, registry)
      [] OTHER -> SafeEval_generic_visit(node, st, registry)

\* safe_eval on the tree ast.parse returned: the value or the error, and the
\* caller's env dict as the call leaves it
SafeEvalResult(r) ==
    IF r.err # "none" THEN [val |-> None, err |-> r.err, env |-> r.st.caller]
    ELSE IF r.val.k = "None" THEN [val |-> None, err |-> "EvaluatedToNone", env |-> r.st.caller]
    ELSE [val |-> r.val, err |-> "none", env |-> r.st.caller]

safe_eval(tree, env, registry) ==
    SafeEvalResult(SafeEvalVisit(tree, [env |-> env, alias |-> TRUE, caller |-> env], registry))

(***************************************************************************)
(* validate_expr applied to bounded expressions.                           *)
(***************************************************************************)
\* the variables of the operations a specification does not exercise
ValIdle == vexpr = <<>> /\ verr = "idle"
EvalIdle == eexpr = <<>> /\ eenv0 = <<>> /\ eenv = <<>> /\ eres = Raise("idle")
ExecIdle ==
    /\ definition = <<>> /\ params = <<>> /\ xenv = <<>>
    /\ xpc = "idle" /\ xi = 0 /\ xout = <<>>
RegIdle ==
    /\ catalog = <<>> /\ func_registry = <<>> /\ rpc = "idle" /\ ri = 0
    /\ rerr = "idle" /\ fout = <<>>
RsIdle == timeframe = <<>> /\ bars = <<>> /\ rsout = <<>>
SvcIdle == store = {} /\ svcLog = <<>>
RaceIdle == creators = <<>>
CalcIdle == calcIn = <<>> /\ calcOut = <<>>
ConcIdle == threads = <<>> /\ shared = <<>>

\* the registry's function names and the declared variable names
VFuncs == {"sma", "abs"}
VVars == {"a", "b"}

A == Name("a")
X == Name("x")

VLeaves ==
    {Name("a"), Name("u"), Name("x"), Constant(PyNum(1)), Constant(PyStr(<<"s">>))}

BinOps == {"Add", "Sub", "Mult", "Div", "Pow", "Mod", "FloorDiv", "BitXor"}

Targetable(e) == e.kind \in {"Name", "Attribute", "Subscript", "Tuple", "List"}
AsTarget(e) == IF e.kind = "Name" THEN NameStore(e.id) ELSE e

\* the expressions that hold e as an operand, an argument, a callee or a
\* part of a comprehension
Wrap(e) ==
    {BinOp(op, e, A) : op \in BinOps}
    \cup {BinOp("Add", X, e), BinOp("Add", e, X)}
    \cup {UnaryOp(op, e) : op \in {"USub", "Not"}}
    \cup {Call(Name("sma"), <<e, A>>, <<>>),
          Call(Name("g"), <<e>>, <<>>),
          Call(Name("a"), <<e>>, <<>>),
          Call(Name("sma"), <<A>>, <<Keyword("n", e)>>),
          Call(e, <<A>>, <<>>)}
    \cup {ListNode(<<e, X>>), TupleNode(<<X, e>>)}
    \cup {ListComp(e, <<Comprehension(NameStore("x"), A, <<>>)>>),
          ListComp(X, <<Comprehension(NameStore("x"), e, <<>>)>>),
          ListComp(X, <<Comprehension(NameStore("x"), A, <<e>>)>>),
          ListComp(X, <<Comprehension(NameStore("x"), A, <<>>),
                        Comprehension(NameStore("y"), e, <<>>)>>)}
    \cup (IF Targetable(e)
          THEN {ListComp(A, <<Comprehension(AsTarget(e), A, <<>>)>>)}
          ELSE {})
    \cup {Attribute(e, "attr"), Subscript(e, Constant(PyNum(0))), Compare(e, A), Lambda(e)}

RECURSIVE VExprs(_)
VExprs(d) ==
    IF d = 0 THEN VLeaves
    ELSE LET p == VExprs(d - 1) IN p \cup UNION {Wrap(e) : e \in p}

InitValidate ==
    /\ vexpr \in VExprs(MaxDepth)
    /\ verr = "pending"
    /\ EvalIdle
    /\ ExecIdle
    /\ RegIdle
    /\ RsIdle
    /\ SvcIdle
    /\ RaceIdle
    /\ CalcIdle
    /\ ConcIdle

\* validate_expr(expr, funcs, vars)
Validate ==
    /\ verr = "pending"
    /\ verr' = validate_expr(vexpr, VFuncs, VVars)
    /\ UNCHANGED <<vexpr, notValVars>>

NextValidate == Validate

SpecValidate == InitValidate /\ [][NextValidate]_vars

(***************************************************************************)
(* Reference predicates on expressions (lexical, independent of the        *)
(* validator's traversal).                                                 *)
(***************************************************************************)
\* node kinds that are expression constructs no formula may use: every kind
\* but the allow-listed ones and the argument/binding wrappers
IsDisallowedKind(kind) ==
    kind \notin {"Expression", "Call", "BinOp", "UnaryOp", "Name", "Load", "Store",
                 "Add", "Sub", "Mult", "Div", "Pow", "Mod", "USub",
                 "Constant", "Tuple", "List", "ListComp", "comprehension", "keyword"}

RECURSIVE HasDisallowed(_)
\* some node of the tree, in any position, is of a disallowed kind
HasDisallowed(e) ==
    \/ IsDisallowedKind(e.kind)
    \/ \E i \in 1..Len(Children(e)) : HasDisallowed(Children(e)[i])

\* the names the generators of a comprehension bind
TargetNames(lc) ==
    {lc.generators[i].target.id :
        i \in {j \in 1..Len(lc.generators) : lc.generators[j].target.kind = "Name"}}

RECURSIVE HasFreeLoad(_, _)
\* some variable load, in an operand, a positional argument, a literal or a
\* comprehension, names neither a declared variable nor the target of a
\* comprehension it lies in
HasFreeLoad(e, bound) ==
    CASE e.kind = "Name" -> e.ctx = "Load" /\ e.id \notin VVars \cup bound
      [] e.kind = "Call" -> \E i \in 1..Len(e.args) : HasFreeLoad(e.args[i], bound)
      [] e.kind = "ListComp" ->
            LET b == bound \cup TargetNames(e)
            IN  \/ HasFreeLoad(e.elt, b)
                \/ \E i \in 1..Len(e.generators) :
                      \/ HasFreeLoad(e.generators[i].iter, b)
                      \/ \E j \in 1..Len(e.generators[i].ifs) :
                            HasFreeLoad(e.generators[i].ifs[j], b)
      [] e.kind \in {"BinOp", "UnaryOp", "List", "Tuple", "Attribute", "Subscript",
                     "Compare", "Lambda"} ->
            \E i \in 1..Len(Children(e)) : HasFreeLoad(Children(e)[i], bound)
      [] OTHER -> FALSE

RECURSIVE AllTargetNames(_)
\* every comprehension target name of the tree
AllTargetNames(e) ==
    (IF e.kind = "ListComp" THEN TargetNames(e) ELSE {})
    \cup UNION {AllTargetNames(Children(e)[i]) : i \in 1..Len(Children(e))}

RECURSIVE HasLoadOutside(_, _)
\* some variable load anywhere in the tree names nothing in names
HasLoadOutside(e, names) ==
    \/ e.kind = "Name" /\ e.ctx = "Load" /\ e.id \notin names
    \/ e.kind = "Call" /\ \E i \in 1..Len(e.args) : HasLoadOutside(e.args[i], names)
    \/ e.kind = "Call" /\ \E i \in 1..Len(e.keywords) : HasLoadOutside(e.keywords[i].value, names)
    \/ e.kind \notin {"Name", "Call"}
          /\ \E i \in 1..Len(Children(e)) : HasLoadOutside(Children(e)[i], names)

RECURSIVE HasUncheckedCall(_, _)
\* some call has a callee that is no registered bare name, or a keyword
\* argument loading a name that is neither declared nor any comprehension's
\* target
HasUncheckedCall(e, names) ==
    \/ /\ e.kind = "Call"
       /\ \/ e.func.kind # "Name"
          \/ e.func.id \notin VFuncs
          \/ \E i \in 1..Len(e.keywords) : HasLoadOutside(e.keywords[i].value, names)
    \/ \E i \in 1..Len(Children(e)) : HasUncheckedCall(Children(e)[i], names)

RECURSIVE HasListComp(_)
HasListComp(e) ==
    e.kind = "ListComp" \/ \E i \in 1..Len(Children(e)) : HasListComp(Children(e)[i])

RECURSIVE HasMultiLevelComp(_)
\* some comprehension has several generators or holds another comprehension
HasMultiLevelComp(e) ==
    \/ /\ e.kind = "ListComp"
       /\ \/ Len(e.generators) > 1
          \/ \E i \in 1..Len(Children(e)) : HasListComp(Children(e)[i])
    \/ \E i \in 1..Len(Children(e)) : HasMultiLevelComp(Children(e)[i])

RECURSIVE WellFormed(_, _)
\* built solely from the grammar of the specification, every load a declared
\* name or the target of the enclosing comprehension
WellFormed(e, bound) ==
    CASE e.kind = "Name" -> e.ctx = "Load" /\ e.id \in VVars \cup bound
      [] e.kind = "Constant" -> TRUE
      [] e.kind = "BinOp" ->
            /\ e.op \in {"Add", "Sub", "Mult", "Div", "Pow", "Mod"}
            /\ WellFormed(e.left, bound) /\ WellFormed(e.right, bound)
      [] e.kind = "UnaryOp" -> e.op = "USub" /\ WellFormed(e.operand, bound)
      [] e.kind = "Call" ->
            /\ e.func.kind = "Name" /\ e.func.id \in VFuncs
            /\ e.keywords = <<>>
            /\ \A i \in 1..Len(e.args) : WellFormed(e.args[i], bound)
      [] e.kind \in {"List", "Tuple"} -> \A i \in 1..Len(e.elts) : WellFormed(e.elts[i], bound)
      [] e.kind = "ListComp" ->
            /\ Len(e.generators) = 1
            /\ e.generators[1].target.kind = "Name"
            /\ ~HasListComp(e.elt) /\ ~HasListComp(e.generators[1])
            /\ WellFormed(e.generators[1].iter, bound)
            /\ \A j \in 1..Len(e.generators[1].ifs) :
                  WellFormed(e.generators[1].ifs[j], bound \cup {e.generators[1].target.id})
            /\ WellFormed(e.elt, bound \cup {e.generators[1].target.id})
      [] OTHER -> FALSE

(***************************************************************************)
(* Claims on validate_expr (SpecValidate).                                 *)
(***************************************************************************)
\* C1: default-deny - validate_expr raises for every expression whose tree
\* holds a node of a disallowed kind (attribute access, subscript,
\* comparison, lambda, an operator off the list), wherever it occurs: in an
\* operand, in a positional or keyword argument, in any part of a
\* comprehension.
C1_DefaultDeny ==
    (verr # "pending" /\ HasDisallowed(vexpr)) => verr # "none"

\* C2: validate_expr raises for every variable load that names neither an
\* allowed variable nor the target of a comprehension enclosing the load; a
\* target's binding ends with its comprehension.
C2_UnknownVariableRejected ==
    (verr # "pending" /\ HasFreeLoad(vexpr, {})) => verr # "none"

\* C3: an accepted expression has only calls whose callee is a registered
\* bare name and whose arguments, keyword arguments included, passed the
\* variable-name check.
C3_CallsChecked ==
    verr = "none" => ~HasUncheckedCall(vexpr, VVars \cup AllTargetNames(vexpr))

\* C4: validate_expr rejects a comprehension with more than one generator
\* and a comprehension nested in another.
C4_SingleLevelOnly ==
    (verr # "pending" /\ HasMultiLevelComp(vexpr)) => verr # "none"

\* C5: validate_expr returns for every expression built solely from the
\* allow-listed constructs whose loads are declared names or enclosing
\* comprehension targets.
C5_AllowListedAccepted ==
    (verr # "pending" /\ WellFormed(vexpr, {})) => verr = "none"

\* a filtered single-level comprehension whose filter uses modulo was validated
C5_Witness ==
    /\ verr = "none"
    /\ WellFormed(vexpr, {})
    /\ vexpr.kind = "ListComp"
    /\ Len(vexpr.generators[1].ifs) = 1
    /\ vexpr.generators[1].ifs[1].kind = "BinOp"
    /\ vexpr.generators[1].ifs[1].op = "Mod"

\* C27: the iterable of a comprehension is checked before the target is
\* bound - a comprehension whose iterable is its own target name, a name
\* not otherwise allowed ("x for x in x"), is rejected with the
\* unknown-variable error
C27_IterableBeforeTarget ==
    (/\ verr # "pending"
     /\ vexpr.kind = "ListComp"
     /\ vexpr.generators[1].target.kind = "Name"
     /\ vexpr.generators[1].target.id \notin VVars
     /\ vexpr.generators[1].iter = Name(vexpr.generators[1].target.id))
        => verr = "UnknownVariable"

(***************************************************************************)
(* safe_eval applied to bounded expressions and environments, each         *)
(* validated first as both call sites in execute_indicator do.             *)
(***************************************************************************)
\* the registry load_function_registry builds from PYTHON_FUNCTIONS rows
ERegistry == [f \in {"sma", "abs", "shift"} |-> f]

ESeries == Series(<<Rat(4, 1), Rat(0, 1), Rat(-2, 1)>>)
AVals == {-3, 0, 2, 4}
BVals == {-1, 0, 3, 10}

EEnvs ==
    {[x \in {"a", "b", "s", "lv"} |->
        CASE x = "a" -> PyNum(i)
          [] x = "b" -> PyNum(j)
          [] x = "s" -> ESeries
          [] x = "lv" -> PyList(<<PyNum(1), PyNum(2)>>)] : i \in AVals, j \in BVals}

ELeaves ==
    {Name("a"), Name("b"), Name("s"), Name("lv"), Name("x"),
     Constant(PyNum(0)), Constant(PyNum(2))}

IsLeafNode(e) == e.kind \in {"Name", "Constant"}

EWrap(e) ==
    {BinOp(op, e, Name("b")) : op \in {"Add", "Sub", "Mult", "Div", "Mod"}}
    \cup {BinOp(op, Name("a"), e) : op \in {"Sub", "Div"}}
    \cup (IF e = Name("a") THEN {BinOp("Pow", e, Name("b"))} ELSE {})
    \cup (IF IsLeafNode(e) THEN {BinOp("Pow", e, Constant(PyNum(2)))} ELSE {})
    \cup {UnaryOp("USub", e)}
    \cup {Call(Name("sma"), <<e, Constant(PyNum(2))>>, <<>>), Call(Name("abs"), <<e>>, <<>>)}
    \cup {ListComp(e, <<Comprehension(NameStore("x"), Name("s"), <<>>)>>),
          ListComp(e, <<Comprehension(NameStore("a"), Name("lv"), <<>>)>>),
          ListComp(BinOp("Div", Name("x"), Name("b")),
                   <<Comprehension(NameStore("x"), e, <<>>)>>)}
    \cup {ListComp(Name("x"), <<Comprehension(NameStore("x"), Name("s"), <<e>>)>>)}
    \cup {ListNode(<<e>>), TupleNode(<<Name("a"), e>>)}

ELevel1 == UNION {EWrap(e) : e \in ELeaves}
ELevel2 == UNION {EWrap(e) : e \in ELevel1}
EExprs == ELeaves \cup ELevel1 \cup ELevel2

InitEval ==
    /\ eexpr \in EExprs
    /\ eenv0 \in EEnvs
    /\ eenv = eenv0
    /\ eres = Raise("pending")
    /\ ValIdle
    /\ ExecIdle
    /\ RegIdle
    /\ RsIdle
    /\ SvcIdle
    /\ RaceIdle
    /\ CalcIdle
    /\ ConcIdle

EValidation == validate_expr(eexpr, DOMAIN ERegistry, DOMAIN eenv0)

\* validate_expr(expr, registry, list(env.keys())) raises: safe_eval is not reached
EvalRejected ==
    /\ eres.err = "pending"
    /\ EValidation # "none"
    /\ eres' = Raise(EValidation)
    /\ UNCHANGED <<eexpr, eenv0, eenv, notEvalVars>>

\* safe_eval(expr, env, registry)
Evaluate ==
    /\ eres.err = "pending"
    /\ EValidation = "none"
    /\ LET r == safe_eval(eexpr, eenv, ERegistry)
       IN  /\ eres' = [val |-> r.val, err |-> r.err]
           /\ eenv' = r.env
    /\ UNCHANGED <<eexpr, eenv0, notEvalVars>>

NextEval == EvalRejected \/ Evaluate

SpecEval == InitEval /\ [][NextEval]_vars

\* safe_eval was called and has returned or raised
Evaluated == eres.err \notin {"pending", "idle"} /\ EValidation = "none"

(***************************************************************************)
(* Claims on safe_eval (SpecEval).                                         *)
(***************************************************************************)
RECURSIVE IntPow(_, _)
IntPow(x, e) == IF e = 0 THEN 1 ELSE x * IntPow(x, e - 1)

RECURSIVE RefInt(_, _)
\* integer arithmetic of an expression over integer bindings
RefInt(e, env) ==
    CASE e.kind = "Name" -> env[e.id].x.n
      [] e.kind = "Constant" -> e.value.x.n
      [] e.kind = "UnaryOp" -> 0 - RefInt(e.operand, env)
      [] e.kind = "BinOp" /\ e.op = "Add" -> RefInt(e.left, env) + RefInt(e.right, env)
      [] e.kind = "BinOp" /\ e.op = "Sub" -> RefInt(e.left, env) - RefInt(e.right, env)
      [] e.kind = "BinOp" /\ e.op = "Mult" -> RefInt(e.left, env) * RefInt(e.right, env)
      [] e.kind = "BinOp" /\ e.op = "Pow" -> IntPow(RefInt(e.left, env), RefInt(e.right, env))

RECURSIVE IsIntExpr(_, _)
\* env lookups of integers, integer constants, +, -, *, unary minus, and
\* power with a non-negative exponent
IsIntExpr(e, env) ==
    CASE e.kind = "Name" -> e.id \in DOMAIN env /\ IsPyInt(env[e.id])
      [] e.kind = "Constant" -> IsPyInt(e.value)
      [] e.kind = "UnaryOp" -> e.op = "USub" /\ IsIntExpr(e.operand, env)
      [] e.kind = "BinOp" ->
            /\ e.op \in {"Add", "Sub", "Mult", "Pow"}
            /\ IsIntExpr(e.left, env) /\ IsIntExpr(e.right, env)
            /\ e.op = "Pow" => RefInt(e.right, env) >= 0
      [] OTHER -> FALSE

RECURSIVE HasOp(_, _)
HasOp(e, op) ==
    \/ e.kind = "BinOp" /\ e.op = op
    \/ \E i \in 1..Len(Children(e)) : HasOp(Children(e)[i], op)

\* C6: safe_eval leaves the caller's environment as it found it, whether it
\* returns or raises; a comprehension's target is neither added to env nor
\* overwrites an entry of env.
C6_EnvUnchanged ==
    Evaluated => eenv = eenv0

\* C7: on integer scalars the evaluator computes standard arithmetic: a+b is
\* 5 for a=2, b=3; -a is -4 for a=4; a to the power b is 1024 for a=2, b=10;
\* lookups, +, -, *, power and unary minus equal integer arithmetic.
C7_ScalarArithmetic ==
    /\ (Evaluated /\ IsIntExpr(eexpr, eenv0)) =>
            (eres.err = "none" /\ eres.val = PyNum(RefInt(eexpr, eenv0)))
    /\ (Evaluated /\ eexpr = BinOp("Add", Name("a"), Name("b"))
            /\ eenv0["a"] = PyNum(2) /\ eenv0["b"] = PyNum(3)) => eres.val = PyNum(5)
    /\ (Evaluated /\ eexpr = UnaryOp("USub", Name("a")) /\ eenv0["a"] = PyNum(4)) =>
            eres.val = PyNum(-4)
    /\ (Evaluated /\ eexpr = BinOp("Pow", Name("a"), Name("b"))
            /\ eenv0["a"] = PyNum(2) /\ eenv0["b"] = PyNum(10)) => eres.val = PyNum(1024)

\* a nested integer expression with a subtraction was evaluated
C7_Witness ==
    /\ Evaluated
    /\ eexpr = BinOp("Sub", Name("a"), BinOp("Pow", Name("a"), Name("b")))
    /\ eenv0["a"] = PyNum(2) /\ eenv0["b"] = PyNum(10)
    /\ eres.val = PyNum(-1022)

\* C8: every binary operator validate_expr accepts is evaluated: safe_eval of
\* a validated expression never raises the unsupported-operator error, and
\* a modulo b on scalars is the remainder.
C8_AcceptedOperatorsEvaluated ==
    /\ Evaluated => eres.err # "UnsupportedOperator"
    /\ (Evaluated /\ eexpr = BinOp("Mod", Name("a"), Name("b")) /\ eenv0["b"].x.n > 0) =>
            eres.val = PyNum(eenv0["a"].x.n % eenv0["b"].x.n)

\* C9: a division whose divisor is zero never raises, for scalar operands as
\* for sequences.
C9_DivisionByZeroNeverRaises ==
    (Evaluated /\ ~HasOp(eexpr, "Pow")) => eres.err # "ZeroDivisionError"

\* bool(v) of a number, a list or a string
Truthy(v) ==
    CASE v.k = "num" -> ~IsZero(v.x)
      [] v.k = "list" -> v.items # <<>>
      [] v.k = "str" -> v.cs # <<>>
      [] OTHER -> FALSE

\* a comprehension with one generator whose target is a name
IsSimpleComp(e) ==
    e.kind = "ListComp" /\ Len(e.generators) = 1 /\ e.generators[1].target.kind = "Name"

\* the elements the iterable of the comprehension e produces under env
CompItems(e, env) == IterateValue(safe_eval(e.generators[1].iter, env, ERegistry).val).val

\* env with the target of e bound to the j-th element
CompEnv(e, env, j) == Put(env, e.generators[1].target.id, CompItems(e, env)[j])

\* the iterable evaluates to a sequence, every filter of e evaluates, for
\* every element, to a number, a list or a string, and the element
\* expression evaluates for every element
CompEvaluable(e, env) ==
    /\ safe_eval(e.generators[1].iter, env, ERegistry).err = "none"
    /\ IterateValue(safe_eval(e.generators[1].iter, env, ERegistry).val).err = "none"
    /\ \A j \in 1..Len(CompItems(e, env)) :
          /\ safe_eval(e.elt, CompEnv(e, env, j), ERegistry).err = "none"
          /\ \A f \in 1..Len(e.generators[1].ifs) :
                /\ safe_eval(e.generators[1].ifs[f], CompEnv(e, env, j), ERegistry).err = "none"
                /\ safe_eval(e.generators[1].ifs[f], CompEnv(e, env, j), ERegistry).val.k
                      \in {"num", "list", "str"}

\* the j-th element passes every filter of e
Kept(e, env, j) ==
    \A f \in 1..Len(e.generators[1].ifs) :
        Truthy(safe_eval(e.generators[1].ifs[f], CompEnv(e, env, j), ERegistry).val)

RECURSIVE FilteredValues(_, _, _)
\* the element expression evaluated, in order, for the elements from the
\* j-th on that pass the filters
FilteredValues(e, env, j) ==
    IF j > Len(CompItems(e, env)) THEN <<>>
    ELSE (IF Kept(e, env, j)
          THEN <<safe_eval(e.elt, CompEnv(e, env, j), ERegistry).val>>
          ELSE <<>>) \o FilteredValues(e, env, j + 1)

\* C29: 'elt for name in iterable if cond' evaluates to elt for exactly the
\* elements whose cond is true, in order; without a filter to one value per
\* element of the iterable
C29_FilterApplied ==
    (Evaluated /\ IsSimpleComp(eexpr) /\ CompEvaluable(eexpr, eenv0)) =>
        /\ eres.err = "none"
        /\ eres.val = PyList(FilteredValues(eexpr, eenv0, 1))

\* a list or tuple literal every element of which evaluates under env
IsEvaluableLiteral(e, env) ==
    /\ e.kind \in {"List", "Tuple"}
    /\ \A i \in 1..Len(e.elts) : safe_eval(e.elts[i], env, ERegistry).err = "none"

\* the values of the elements of the literal, in order
LiteralValues(e, env) == [i \in 1..Len(e.elts) |-> safe_eval(e.elts[i], env, ERegistry).val]

\* C30: a validated list or tuple literal evaluates to the ordered sequence
\* of its elements' values, never to None, and a comprehension can iterate
\* it
C30_LiteralsEvaluable ==
    /\ (Evaluated /\ IsEvaluableLiteral(eexpr, eenv0)) =>
            /\ eres.err = "none"
            /\ eres.val.k = "list"
            /\ eres.val.items = LiteralValues(eexpr, eenv0)
    /\ (/\ Evaluated /\ IsSimpleComp(eexpr)
        /\ IsEvaluableLiteral(eexpr.generators[1].iter, eenv0)
        /\ \A v \in {LiteralValues(eexpr.generators[1].iter, eenv0)[i] :
                        i \in 1..Len(eexpr.generators[1].iter.elts)} : v.k = "num")
            => eres.err # "TypeError"

(***************************************************************************)
(* compute.py: ComputeEngine.execute_indicator(definition, df, registry,   *)
(* params), one action per stretch of the method between two loop heads.   *)
(***************************************************************************)
Nums(ns) == [i \in 1..Len(ns) |-> Rat(ns[i], 1)]

\* df: the five price columns of the bars
DF ==
    [c \in {"open_price", "high_price", "low_price", "close_price", "volume"} |->
        CASE c = "open_price" -> Series(Nums(<<1, 2, 3, 4, 5>>))
          [] c = "high_price" -> Series(Nums(<<2, 3, 4, 5, 6>>))
          [] c = "low_price" -> Series(Nums(<<0, 1, 2, 3, 4>>))
          [] c = "close_price" -> Series(Nums(<<1, 2, 3, 4, 5>>))
          [] c = "volume" -> Series(Nums(<<10, 0, 5, 7, 1>>))]

\* {**d1, **d2} and d1.update(d2)
DictMerge(d1, d2) ==
    [key \in (DOMAIN d1) \cup (DOMAIN d2) |-> IF key \in DOMAIN d2 THEN d2[key] ELSE d1[key]]

EmptyDict == [key \in {} |-> None]
Dict1(key, v) == [x \in {key} |-> v]

XRegistry == [f \in {"sma", "abs", "shift"} |-> f]

Step(name, expr) == [name |-> name, expr |-> expr]
ExecPlan(steps, formula) == [falsy |-> FALSE, steps |-> steps, formula |-> formula]
\* a definition whose exec_plan is {} or absent
NoExecPlan == [falsy |-> TRUE, steps |-> <<>>, formula |-> Constant(PyNum(0))]

Close == Name("close_price")

XStepNames == {"x", "y"}
XStepExprs ==
    {Call(Name("sma"), <<Close, Name("n")>>, <<>>),
     Call(Name("sma"), <<Close, Constant(PyNum(3))>>, <<>>),
     Name("y"),
     BinOp("Add", Name("x"), Close),
     BinOp("Div", Close, Name("n")),
     ListComp(Name("y"), <<Comprehension(NameStore("y"), Close, <<>>)>>),
     BinOp("Add", ListComp(Name("y"), <<Comprehension(NameStore("y"), Close, <<>>)>>),
                  Name("y"))}
XFormulas == {Name("x"), BinOp("Add", Name("x"), Name("y")), Close}

XSteps == {Step(nm, e) : nm \in XStepNames, e \in XStepExprs}

RECURSIVE StepLists(_)
\* the step lists of at most n steps
StepLists(n) ==
    IF n = 0 THEN {<<>>}
    ELSE LET p == StepLists(n - 1)
         IN  p \cup {Append(l, st) : l \in {q \in p : Len(q) = n - 1}, st \in XSteps}

XParameters == {EmptyDict, Dict1("n", PyNum(2)), Dict1("n", None)}
XOverrides == {EmptyDict, Dict1("n", PyNum(3))}

XDefinitions ==
    {[parameters |-> ps, exec_plan |-> ExecPlan(sl, f)] :
        ps \in XParameters, sl \in StepLists(MaxSteps), f \in XFormulas}
    \cup {[parameters |-> ps, exec_plan |-> NoExecPlan] : ps \in XParameters}

Pending == [val |-> None, err |-> "pending", at |-> "none"]
Failed(e, at) == [val |-> None, err |-> e, at |-> at]
Returned(v) == [val |-> v, err |-> "none", at |-> "return"]

InitExec ==
    /\ definition \in XDefinitions
    /\ params \in XOverrides
    /\ xenv = EmptyDict
    /\ xpc = "start"
    /\ xi = 1
    /\ xout = Pending
    /\ ValIdle
    /\ EvalIdle
    /\ RegIdle
    /\ RsIdle
    /\ SvcIdle
    /\ RaceIdle
    /\ CalcIdle
    /\ ConcIdle

\* env after lines 21-32: the base columns, then the merged parameters, then
\* the definition's parameters assigned once more
SeededEnv(def, overrides) ==
    LET merged_params == DictMerge(def.parameters, overrides)
        env1 == DictMerge(DF, merged_params)
    IN  DictMerge(env1, def.parameters)

HasNoneValue(env) == \E key \in DOMAIN env : env[key].k = "None"

\* lines 17-19: the definition has no exec_plan
BeginMissingPlan ==
    /\ xpc = "start"
    /\ definition.exec_plan.falsy
    /\ xpc' = "failed"
    /\ xout' = Failed("MissingExecPlan", "begin")
    /\ UNCHANGED <<definition, params, xenv, xi, notExecVars>>

\* lines 21-35: the guard on None values raises; its message reads the loop
\* variable step, which is not bound yet
BeginNoneGuard ==
    /\ xpc = "start"
    /\ ~definition.exec_plan.falsy
    /\ HasNoneValue(SeededEnv(definition, params))
    /\ xenv' = SeededEnv(definition, params)
    /\ xpc' = "failed"
    /\ xout' = Failed("UnboundLocalError", "begin")
    /\ UNCHANGED <<definition, params, xi, notExecVars>>

\* lines 21-36: env is seeded
Begin ==
    /\ xpc = "start"
    /\ ~definition.exec_plan.falsy
    /\ ~HasNoneValue(SeededEnv(definition, params))
    /\ xenv' = SeededEnv(definition, params)
    /\ xpc' = IF definition.exec_plan.steps = <<>> THEN "formula" ELSE "steps"
    /\ UNCHANGED <<definition, params, xi, xout, notExecVars>>

\* lines 39-40 and 43-44: validate_expr(expr, registry, list(env.keys())),
\* then safe_eval(expr, env, registry); the error and the stage that raised
\* it, or the value, and env as the calls leave it
EvalOutcome(r) ==
    [val |-> r.val, err |-> r.err,
     at |-> IF r.err = "none" THEN "return" ELSE "eval", env |-> r.env]

ValidateThenEval(expr, env, registry) ==
    LET v == validate_expr(expr, DOMAIN registry, DOMAIN env)
    IN  IF v # "none" THEN [val |-> None, err |-> v, at |-> "validate", env |-> env]
        ELSE EvalOutcome(safe_eval(expr, env, registry))

\* a loop that skips a step whose validation or evaluation raised
ExecStep_SkipFailedStep ==
    /\ xpc = "steps"
    /\ \E step \in {definition.exec_plan.steps[xi]} :
       \E o \in {ValidateThenEval(step.expr, xenv, XRegistry)} :
           /\ xenv' = IF o.err # "none" THEN o.env ELSE Put(o.env, step.name, o.val)
           /\ xi' = xi + 1
           /\ xpc' = IF xi = Len(definition.exec_plan.steps) THEN "formula" ELSE "steps"
           /\ xout' = xout
    /\ UNCHANGED <<definition, params, notExecVars>>

\* lines 37-40: one iteration of "for step in steps"
ExecStep ==
    /\ xpc = "steps"
    /\ \E step \in {definition.exec_plan.steps[xi]} :
       \E o \in {ValidateThenEval(step.expr, xenv, XRegistry)} :
           IF o.err # "none"
           THEN /\ xenv' = o.env
                /\ xpc' = "failed"
                /\ xout' = Failed(o.err, o.at)
                /\ xi' = xi
           ELSE /\ xenv' = Put(o.env, step.name, o.val)
                /\ xi' = xi + 1
                /\ xpc' = IF xi = Len(definition.exec_plan.steps) THEN "formula" ELSE "steps"
                /\ xout' = xout
    /\ UNCHANGED <<definition, params, notExecVars>>

\* lines 42-44: the final formula
ExecFormula ==
    /\ xpc = "formula"
    /\ \E o \in {ValidateThenEval(definition.exec_plan.formula, xenv, XRegistry)} :
           /\ xenv' = o.env
           /\ xpc' = IF o.err # "none" THEN "failed" ELSE "done"
           /\ xout' = IF o.err # "none" THEN Failed(o.err, o.at) ELSE Returned(o.val)
    /\ UNCHANGED <<definition, params, xi, notExecVars>>

NextExec ==
    \/ BeginMissingPlan
    \/ BeginNoneGuard
    \/ Begin
    \/ ExecStep
    \/ ExecFormula

SpecExec == InitExec /\ [][NextExec]_vars

(***************************************************************************)
(* Claims on execute_indicator (SpecExec).                                 *)
(***************************************************************************)
\* the steps of the plan, none for a definition without a plan
XSteps_ == IF definition.exec_plan.falsy THEN <<>> ELSE definition.exec_plan.steps

\* env has been seeded (lines 21-32) and the guard of line 34 has passed
Seeded == xpc \in {"steps", "formula", "done"} \/ (xpc = "failed" /\ xout.at \in {"validate", "eval"})

\* C11: for a name that is both a declared parameter and an override, env
\* holds the override's value, for every step and for the formula
C11_OverridesTakePrecedence ==
    Seeded => \A key \in (DOMAIN params) \cap (DOMAIN definition.parameters) :
                  xenv[key] = params[key]

\* C12: a failure at step i aborts the run with that error and no later step
\* runs; a value is returned only after every step, in order, and then the
\* formula were validated and evaluated without error; a failed run returns
\* no value
C12_AbortOnFailure ==
    [][ /\ xpc \in {"failed", "done"} => UNCHANGED execVars
        /\ xpc = "steps" =>
              LET o == ValidateThenEval(XSteps_[xi].expr, xenv, XRegistry)
              IN  IF o.err = "none"
                  THEN xi' = xi + 1 /\ xpc' \in {"steps", "formula"} /\ xout' = Pending
                  ELSE xi' = xi /\ xpc' = "failed" /\ xout' = Failed(o.err, o.at)
        /\ xpc = "formula" =>
              LET o == ValidateThenEval(definition.exec_plan.formula, xenv, XRegistry)
              IN  IF o.err = "none"
                  THEN xpc' = "done" /\ xout' = Returned(o.val)
                  ELSE xpc' = "failed" /\ xout' = Failed(o.err, o.at)
        /\ xpc' = "formula" => xi' = Len(XSteps_) + 1
        /\ xpc' = "done" => (xpc = "formula" /\ xi = Len(XSteps_) + 1 /\ xout'.val # None)
        /\ xpc' = "failed" => xout'.val = None
      ]_vars

\* a run whose second step raised in safe_eval after the first step was bound
C12_Witness ==
    /\ xpc = "failed" /\ xi = 2 /\ xout.at = "eval"
    /\ XSteps_[1].name \in DOMAIN xenv

\* the names env is seeded with: the five base columns and the parameters
SeedNames == DOMAIN SeededEnv(definition, params)

\* step names differ from each other and from the seeded names
DistinctStepNames ==
    /\ \A j, h \in 1..Len(XSteps_) : j # h => XSteps_[j].name # XSteps_[h].name
    /\ \A j \in 1..Len(XSteps_) : XSteps_[j].name \notin SeedNames

\* C13: after k executed steps env holds exactly the seeded names and one
\* entry per executed step, named after the step
C13_EnvGrowth ==
    (xpc \in {"steps", "formula"} /\ DistinctStepNames) =>
        /\ DOMAIN xenv = SeedNames \cup {XSteps_[j].name : j \in 1..(xi - 1)}
        /\ Cardinality(DOMAIN xenv) = Cardinality(SeedNames) + (xi - 1)

RECURSIVE LoadsFree(_, _, _)
\* the expression loads the name nm outside every comprehension that has nm
\* as a target
LoadsFree(e, nm, bound) ==
    CASE e.kind = "Name" -> e.ctx = "Load" /\ e.id = nm /\ nm \notin bound
      [] e.kind = "Call" -> \E i \in 1..Len(e.args) : LoadsFree(e.args[i], nm, bound)
      [] e.kind = "ListComp" ->
            LET b == bound \cup TargetNames(e)
            IN  \/ LoadsFree(e.elt, nm, b)
                \/ \E i \in 1..Len(e.generators) : LoadsFree(e.generators[i].iter, nm, b)
      [] e.kind \in {"BinOp", "UnaryOp"} ->
            \E i \in 1..Len(Children(e)) : LoadsFree(Children(e)[i], nm, bound)
      [] OTHER -> FALSE

\* the step is name = sma(close_price, <window>)
IsSmaOfClose(e) ==
    /\ e.kind = "Call" /\ e.func.id = "sma" /\ Len(e.args) = 2 /\ e.args[1] = Close
    /\ e.args[2].kind \in {"Constant", "Name"}

\* the window the call is given: a literal or the parameter bound in env
WindowOf(e) == IF e.args[2].kind = "Constant" THEN e.args[2].value.x.n ELSE xenv[e.args[2].id].x.n

RECURSIVE SumInts(_, _, _)
SumInts(ns, lo, hi) == IF lo > hi THEN 0 ELSE ns[lo] + SumInts(ns, lo + 1, hi)

Closes == <<1, 2, 3, 4, 5>>

\* out is the full-window moving average of the closes: missing before index
\* w-1 (0-based), the mean of the last w closes from there on
IsFullWindowMean(out, w) ==
    /\ out.k = "series" /\ Len(out.xs) = Len(Closes)
    /\ \A i \in 1..Len(Closes) :
          IF i < w THEN IsNaN(out.xs[i])
          ELSE /\ IsFinite(out.xs[i])
               /\ out.xs[i].n * w = out.xs[i].d * SumInts(Closes, i - w + 1, i)

\* C14: sma(s, n) is missing at indices below n-1 and the mean of the last n
\* values otherwise; the plan x = sma(close, 3), formula x over closes
\* 1,2,3,4,5 returns missing, missing, 2, 3, 4
C14_SmaFullWindow ==
    /\ (xpc \in {"steps", "formula"} /\ xi > 1 /\ IsSmaOfClose(XSteps_[xi - 1].expr))
          => IsFullWindowMean(xenv[XSteps_[xi - 1].name], WindowOf(XSteps_[xi - 1].expr))
    /\ (/\ xpc = "done"
        /\ XSteps_ = <<Step("x", Call(Name("sma"), <<Close, Constant(PyNum(3))>>, <<>>))>>
        /\ definition.exec_plan.formula = Name("x"))
          => xout.val = Series(<<NaN, NaN, Rat(2, 1), Rat(3, 1), Rat(4, 1)>>)

C14_Witness ==
    /\ xpc = "done"
    /\ XSteps_ = <<Step("x", Call(Name("sma"), <<Close, Constant(PyNum(3))>>, <<>>))>>
    /\ definition.exec_plan.formula = Name("x")
    /\ xout.val.k = "series" /\ IsNaN(xout.val.xs[2]) /\ xout.val.xs[3] = Rat(2, 1)

\* step k refers to the name of a later step, a name that is no base column,
\* no parameter and no earlier step
ForwardRef(k) ==
    \E j \in (k + 1)..Len(XSteps_) :
        /\ LoadsFree(XSteps_[k].expr, XSteps_[j].name, {})
        /\ XSteps_[j].name \notin DOMAIN DF
        /\ XSteps_[j].name \notin (DOMAIN definition.parameters) \cup (DOMAIN params)
        /\ \A h \in 1..(k - 1) : XSteps_[h].name # XSteps_[j].name

\* C10: a step that refers to the name of a later step fails validation with
\* an unknown-variable error at that step, and no later step is executed
C10_NoForwardReferences ==
    \A k \in 1..Len(XSteps_) :
        ForwardRef(k) =>
            /\ xi <= k
            /\ xpc \notin {"formula", "done"}
            /\ (xpc = "failed" /\ xi = k /\ xout.at # "begin")
                  => (xout.err = "UnknownVariable" /\ xout.at = "validate")

\* C28: no step rebinds an existing name - the name a step binds is not yet
\* in env (neither a base column, nor a parameter, nor an earlier step), and
\* every binding of env keeps its value until the final formula is evaluated
C28_NoRebinding ==
    [][ /\ (xpc = "steps" /\ xi' = xi + 1) => XSteps_[xi].name \notin DOMAIN xenv
        /\ xpc \in {"steps", "formula"} =>
              \A key \in DOMAIN xenv : key \in DOMAIN xenv' /\ xenv'[key] = xenv[key]
      ]_vars

(***************************************************************************)
(* function_registry.py: load_function_registry(db), one action per        *)
(* iteration of the loop over the catalog rows, and a call of an entry of  *)
(* the registry it returned.                                               *)
(***************************************************************************)
Row(name, impl_type) == [name |-> name, impl_type |-> impl_type]

\* names and implementation kinds found in indicator_functions
CatalogNames == {"sma", "ema", "wilder", "rolling_max", "rolling_min", "stdev", "vwap"}
ImplTypes == {"python", "sql", "wasm"}
CatalogRows == {Row(nm, t) : nm \in CatalogNames, t \in ImplTypes}

RECURSIVE Catalogs(_)
\* the catalogs of at most n rows
Catalogs(n) ==
    IF n = 0 THEN {<<>>}
    ELSE LET p == Catalogs(n - 1)
         IN  p \cup {Append(c, r) : c \in {q \in p : Len(q) = n - 1}, r \in CatalogRows}

\* the series and windows the registry functions are called with
FSeries == {Series(Nums(<<1, 2, 3, 4>>)), Series(Nums(<<4, 0, -2, 6>>))}
Windows == 1..MaxWindow

InitRegistry ==
    /\ catalog \in Catalogs(MaxRows)
    /\ func_registry = EmptyDict
    /\ rpc = "loading"
    /\ ri = 1
    /\ rerr = "none"
    /\ fout = <<>>
    /\ ValIdle
    /\ EvalIdle
    /\ ExecIdle
    /\ RsIdle
    /\ SvcIdle
    /\ RaceIdle
    /\ CalcIdle
    /\ ConcIdle

\* lines 35-38: a "python" row with an implementation in PYTHON_FUNCTIONS
LoadPython ==
    /\ rpc = "loading" /\ ri <= Len(catalog)
    /\ catalog[ri].impl_type = "python"
    /\ catalog[ri].name \in PYTHON_FUNCTION_NAMES
    /\ func_registry' = Put(func_registry, catalog[ri].name,
                            [impl |-> "python", fname |-> catalog[ri].name])
    /\ ri' = ri + 1
    /\ UNCHANGED <<catalog, rpc, rerr, fout, notRegVars>>

\* lines 35-37: a "python" row without an implementation
LoadMissingImplementation ==
    /\ rpc = "loading" /\ ri <= Len(catalog)
    /\ catalog[ri].impl_type = "python"
    /\ catalog[ri].name \notin PYTHON_FUNCTION_NAMES
    /\ rpc' = "failed"
    /\ rerr' = "NoPythonImplementation"
    /\ UNCHANGED <<catalog, func_registry, ri, fout, notRegVars>>

\* lines 39-41: an "sql" row gets a placeholder lambda
LoadSql ==
    /\ rpc = "loading" /\ ri <= Len(catalog)
    /\ catalog[ri].impl_type = "sql"
    /\ func_registry' = Put(func_registry, catalog[ri].name, [impl |-> "sql", fname |-> "name"])
    /\ ri' = ri + 1
    /\ UNCHANGED <<catalog, rpc, rerr, fout, notRegVars>>

\* lines 42-43: any other impl_type
LoadUnsupported ==
    /\ rpc = "loading" /\ ri <= Len(catalog)
    /\ catalog[ri].impl_type \notin {"python", "sql"}
    /\ rpc' = "failed"
    /\ rerr' = "UnsupportedImplType"
    /\ UNCHANGED <<catalog, func_registry, ri, fout, notRegVars>>

\* line 44: the loop is over, the registry is returned
ReturnRegistry ==
    /\ rpc = "loading" /\ ri > Len(catalog)
    /\ rpc' = "built"
    /\ UNCHANGED <<catalog, func_registry, ri, rerr, fout, notRegVars>>

\* str(arg) inside the placeholder's f-string
StrOf(v) == [k |-> "text", of |-> v]

\* registry[fname](*args): the PYTHON_FUNCTIONS lambda, or the placeholder
\* of line 41, whose f-string reads the loop variable name when it is called,
\* that is the name of the last row
RegistryCall(reg, rows, fname, args) ==
    IF reg[fname].impl = "python" THEN PYTHON_FUNCTIONS(reg[fname].fname, args)
    ELSE Val(PyStr(<<rows[Len(rows)].name>> \o [i \in 1..Len(args) |-> StrOf(args[i])]))

\* eval_engine.py line 71: an entry of the returned registry is called
CallFunction ==
    /\ rpc = "built"
    /\ \E f \in DOMAIN func_registry, s \in FSeries, n \in Windows :
          fout' = [fname |-> f, s |-> s, n |-> n,
                   res |-> RegistryCall(func_registry, catalog, f, <<s, PyNum(n)>>)]
    /\ rpc' = "called"
    /\ UNCHANGED <<catalog, func_registry, ri, rerr, notRegVars>>

NextRegistry ==
    \/ LoadPython
    \/ LoadMissingImplementation
    \/ LoadSql
    \/ LoadUnsupported
    \/ ReturnRegistry
    \/ CallFunction

SpecRegistry == InitRegistry /\ [][NextRegistry]_vars

(***************************************************************************)
(* Claims on the function registry (SpecRegistry).                         *)
(***************************************************************************)
WindowedTransforms == {"sma", "ema", "wilder", "rolling_max", "rolling_min", "stdev"}

\* C15: a windowed transform of the native table called with window n gives
\* a missing value at every index below n-1
C15_FullWindowRequired ==
    (/\ rpc = "called"
     /\ fout.fname \in WindowedTransforms
     /\ func_registry[fout.fname].impl = "python"
     /\ fout.res.err = "none")
        => /\ fout.res.val.k = "series"
           /\ \A i \in 1..Len(fout.s.xs) : i < fout.n => IsNaN(fout.res.val.xs[i])

\* C16: a registry is returned only if every catalog row has the native
\* implementation kind and a name of the native table
C16_OnlyNativeRowsBuild ==
    rpc \in {"built", "called"} =>
        \A i \in 1..Len(catalog) :
            catalog[i].impl_type = "python" /\ catalog[i].name \in PYTHON_FUNCTION_NAMES

(***************************************************************************)
(* compute.py: ComputeEngine.parse_timeframe and resample_ohlcv.  A label  *)
(* is the sequence of its characters; a bar is a row of df, its timestamp  *)
(* the minute of the day.                                                  *)
(***************************************************************************)
DigitChars == {"0", "1", "2", "3", "4", "5", "6", "7", "8", "9"}
UnitChars == {"m", "h", "d", "w", "M"}

DigitVal(c) ==
    CASE c = "0" -> 0 [] c = "1" -> 1 [] c = "2" -> 2 [] c = "3" -> 3 [] c = "4" -> 4
      [] c = "5" -> 5 [] c = "6" -> 6 [] c = "7" -> 7 [] c = "8" -> 8 [] c = "9" -> 9

\* re.match(r"^(\d+)([mhdwM])$", tf) on the whole of cs
MatchesWhole(cs) ==
    /\ Len(cs) >= 2
    /\ cs[Len(cs)] \in UnitChars
    /\ \A i \in 1..(Len(cs) - 1) : cs[i] \in DigitChars

\* line 52: "$" matches at the end of the string and also just before a
\* newline that ends the string
ReMatch(tf) ==
    IF MatchesWhole(tf) THEN [ok |-> TRUE, num |-> SubSeq(tf, 1, Len(tf) - 1), unit |-> tf[Len(tf)]]
    ELSE IF Len(tf) >= 1 /\ tf[Len(tf)] = "\n" /\ MatchesWhole(SubSeq(tf, 1, Len(tf) - 1))
    THEN [ok |-> TRUE, num |-> SubSeq(tf, 1, Len(tf) - 2), unit |-> tf[Len(tf) - 1]]
    ELSE [ok |-> FALSE, num |-> <<>>, unit |-> ""]

\* lines 57-63
unit_map(unit) ==
    CASE unit = "m" -> <<"m", "i", "n">>
      [] unit = "h" -> <<"H">>
      [] unit = "d" -> <<"D">>
      [] unit = "w" -> <<"W">>
      [] unit = "M" -> <<"M">>

\* lines 48-64: the rule string f"{num}{unit_map[unit]}", or the ValueError
parse_timeframe(tf) ==
    LET match == ReMatch(tf)
    IN  IF ~match.ok THEN [rule |-> <<>>, err |-> "InvalidTimeframe"]
        ELSE [rule |-> match.num \o unit_map(match.unit), err |-> "none"]

RECURSIVE DigitsToInt(_)
DigitsToInt(ds) ==
    IF ds = <<>> THEN 0
    ELSE 10 * DigitsToInt(SubSeq(ds, 1, Len(ds) - 1)) + DigitVal(ds[Len(ds)])

RECURSIVE LeadingDigits(_)
LeadingDigits(cs) ==
    IF cs # <<>> /\ cs[1] \in DigitChars THEN <<cs[1]>> \o LeadingDigits(Tail(cs)) ELSE <<>>

\* pandas reads a rule string as a multiple of a frequency
ToOffset(rule) ==
    LET ds == LeadingDigits(rule)
    IN  [n |-> DigitsToInt(ds), freq |-> SubSeq(rule, Len(ds) + 1, Len(rule))]

Bar(ts, o, h, l, c, v) ==
    [timestamp |-> ts, open_price |-> Rat(o, 1), high_price |-> Rat(h, 1),
     low_price |-> Rat(l, 1), close_price |-> Rat(c, 1), volume |-> Rat(v, 1)]

\* two price histories, each with low <= open, close <= high in every bar
TrendBar(t) == Bar(t, 100 + t, 102 + t, 99 + t, 101 + t, t + 1)
ZigZagBar(t) ==
    LET o == 100 + ((t * 7) % 5)
    IN  Bar(t, o, o + 3, o - 2 - (t % 2), o + 1 - (t % 3), (t * 3) % 4)

Minutes == 0..(NumMinutes - 1)

RECURSIVE SortedSeq(_)
\* the minutes of a set in increasing order
SortedSeq(S) ==
    IF S = {} THEN <<>>
    ELSE LET m == CHOOSE x \in S : \A y \in S : x <= y
         IN  <<m>> \o SortedSeq(S \ {m})

\* df sorted by timestamp (service.py line 189), some minutes lacking
Frame(mins, history) ==
    LET ts == SortedSeq(mins)
    IN  [i \in 1..Len(ts) |-> IF history = "trend" THEN TrendBar(ts[i]) ELSE ZigZagBar(ts[i])]

MinuteSets == {S \in SUBSET Minutes : Cardinality(Minutes \ S) <= MaxMissing}
Frames == {Frame(S, h) : S \in MinuteSets, h \in {"trend", "zigzag"}}

LabelChars == {"0", "1", "5", "m", "M", "w", "x", "\n"}
RECURSIVE LabelsOfLen(_)
LabelsOfLen(n) ==
    IF n = 0 THEN {<<>>} ELSE {Append(l, c) : l \in LabelsOfLen(n - 1), c \in LabelChars}
Labels == UNION {LabelsOfLen(n) : n \in 0..MaxLabelLen}
\* the labels the frames with lacking minutes are resampled with
FrameLabels == {<<"5", "m">>, <<"2", "m">>, <<"1", "h">>, <<"1", "d">>, <<"0", "m">>}

InitResample ==
    /\ \/ timeframe \in Labels /\ bars = Frame(Minutes, "trend")
       \/ timeframe \in FrameLabels /\ bars \in Frames
    /\ rsout = [rows |-> <<>>, err |-> "pending"]
    /\ ValIdle
    /\ EvalIdle
    /\ ExecIdle
    /\ RegIdle
    /\ SvcIdle
    /\ RaceIdle
    /\ CalcIdle
    /\ ConcIdle

\* minutes in one bin of the offset, for the frequencies that are a fixed
\* span of time; a week or a month holds the whole day the bars lie in
BinMinutes(off) ==
    CASE off.freq = <<"m", "i", "n">> -> off.n
      [] off.freq = <<"H">> -> 60 * off.n
      [] off.freq = <<"D">> -> 1440 * off.n
      [] OTHER -> 10080 * off.n

\* the bin of a timestamp; bins start at midnight of the first day
BinOf(ts, off) == ts \div BinMinutes(off)

\* the label resample gives a bin: its left edge, or the period end for
\* weeks and months
BinLabel(b, off) ==
    IF off.freq \in {<<"W">>, <<"M">>} THEN [period_end |-> off.freq, bin |-> b]
    ELSE [minute |-> b * BinMinutes(off)]

\* the rows of df in bin b, in df's order
RowsIn(df, b, off) == SelectSeq(df, LAMBDA r : BinOf(r.timestamp, off) = b)

Column(rows, col) == [i \in 1..Len(rows) |-> rows[i][col]]

\* an aggregation that takes close from the first row of the bin
AggRow_CloseFirst(df, b, off) ==
    LET rows == RowsIn(df, b, off)
        cnt == Len(rows)
    IN  [timestamp |-> BinLabel(b, off),
         open_price |-> IF cnt = 0 THEN NaN ELSE rows[1].open_price,
         high_price |-> IF cnt = 0 THEN NaN ELSE MaxNums(Column(rows, "high_price"), 1, cnt),
         low_price |-> IF cnt = 0 THEN NaN ELSE MinNums(Column(rows, "low_price"), 1, cnt),
         close_price |-> IF cnt = 0 THEN NaN ELSE rows[1].close_price,
         volume |-> SumNums(Column(rows, "volume"), 1, cnt)]

\* lines 75-81: one row of df.resample(rule).agg({...}); a bin without rows
\* gets NaN for first, max, min, last and 0 for sum
AggRow(df, b, off) ==
    LET rows == RowsIn(df, b, off)
        cnt == Len(rows)
    IN  [timestamp |-> BinLabel(b, off),
         open_price |-> IF cnt = 0 THEN NaN ELSE rows[1].open_price,
         high_price |-> IF cnt = 0 THEN NaN ELSE MaxNums(Column(rows, "high_price"), 1, cnt),
         low_price |-> IF cnt = 0 THEN NaN ELSE MinNums(Column(rows, "low_price"), 1, cnt),
         close_price |-> IF cnt = 0 THEN NaN ELSE rows[cnt].close_price,
         volume |-> SumNums(Column(rows, "volume"), 1, cnt)]

\* .dropna(): rows with a NaN in any column are dropped
DropNa(rows) ==
    SelectSeq(rows, LAMBDA r : \A col \in {"open_price", "high_price", "low_price",
                                          "close_price", "volume"} : ~IsNaN(r[col]))

\* lines 75-85: every bin from the first row's to the last row's, aggregated
Resampled(df, off) ==
    IF df = <<>> THEN <<>>
    ELSE LET lo == BinOf(df[1].timestamp, off)
             hi == BinOf(df[Len(df)].timestamp, off)
         IN  DropNa([i \in 1..(hi - lo + 1) |-> AggRow(df, lo + i - 1, off)])

\* line 70: parse_timeframe raised
ResampleInvalid ==
    /\ rsout.err = "pending"
    /\ parse_timeframe(timeframe).err # "none"
    /\ rsout' = [rows |-> <<>>, err |-> parse_timeframe(timeframe).err]
    /\ UNCHANGED <<timeframe, bars, notRsVars>>

\* line 75: the rule is a zero multiple of a frequency, which pandas refuses
\* with an error of its own
ResampleZeroRule ==
    /\ rsout.err = "pending"
    /\ parse_timeframe(timeframe).err = "none"
    /\ ToOffset(parse_timeframe(timeframe).rule).n = 0
    /\ \E e \in {"PandasValueError", "ZeroDivisionError"} : rsout' = [rows |-> <<>>, err |-> e]
    /\ UNCHANGED <<timeframe, bars, notRsVars>>

\* lines 70-85
Resample ==
    /\ rsout.err = "pending"
    /\ parse_timeframe(timeframe).err = "none"
    /\ ToOffset(parse_timeframe(timeframe).rule).n > 0
    /\ rsout' = [rows |-> Resampled(bars, ToOffset(parse_timeframe(timeframe).rule)),
                 err |-> "none"]
    /\ UNCHANGED <<timeframe, bars, notRsVars>>

NextResample == ResampleInvalid \/ ResampleZeroRule \/ Resample

SpecResample == InitResample /\ [][NextResample]_vars

(***************************************************************************)
(* Claims on parse_timeframe and resample_ohlcv (SpecResample).            *)
(***************************************************************************)
\* the label is a positive integer followed by exactly one unit letter
IsTimeframeLabel(tf) ==
    /\ Len(tf) >= 2
    /\ tf[Len(tf)] \in UnitChars
    /\ \A i \in 1..(Len(tf) - 1) : tf[i] \in DigitChars
    /\ \E i \in 1..(Len(tf) - 1) : tf[i] # "0"

\* the resample rule that matches a label
RuleOf(tf) ==
    SubSeq(tf, 1, Len(tf) - 1) \o
        (CASE tf[Len(tf)] = "m" -> <<"m", "i", "n">>
           [] tf[Len(tf)] = "h" -> <<"H">>
           [] tf[Len(tf)] = "d" -> <<"D">>
           [] tf[Len(tf)] = "w" -> <<"W">>
           [] tf[Len(tf)] = "M" -> <<"M">>)

\* C17: every label that is not <positive integer><unit> fails with the
\* invalid-timeframe error, in parse_timeframe and so in resample_ohlcv;
\* an accepted label maps to the matching rule
C17_InvalidTimeframeRejected ==
    /\ (rsout.err # "pending" /\ ~IsTimeframeLabel(timeframe))
          => (rsout.err = "InvalidTimeframe" /\ parse_timeframe(timeframe).err = "InvalidTimeframe")
    /\ (rsout.err # "pending" /\ IsTimeframeLabel(timeframe))
          => (rsout.err = "none" /\ parse_timeframe(timeframe).rule = RuleOf(timeframe))

\* the span of a label in minutes; a week or month spans the whole input
SpanOf(tf) ==
    LET cnt == DigitsToInt(SubSeq(tf, 1, Len(tf) - 1))
    IN  CASE tf[Len(tf)] = "m" -> cnt
          [] tf[Len(tf)] = "h" -> 60 * cnt
          [] tf[Len(tf)] = "d" -> 1440 * cnt
          [] OTHER -> 10080 * cnt

\* the indices of the input bars that fall in the bucket of an output row
MembersOf(row) ==
    IF "minute" \in DOMAIN row.timestamp
    THEN {i \in 1..Len(bars) :
            /\ bars[i].timestamp >= row.timestamp.minute
            /\ bars[i].timestamp < row.timestamp.minute + SpanOf(timeframe)}
    ELSE 1..Len(bars)

\* low <= open <= high and low <= close <= high
OhlcOrdered(r) ==
    /\ r.low_price.n <= r.open_price.n /\ r.open_price.n <= r.high_price.n
    /\ r.low_price.n <= r.close_price.n /\ r.close_price.n <= r.high_price.n

RECURSIVE SumVolumes(_)
\* the volumes of the input bars with the indices in S, added up
SumVolumes(S) ==
    IF S = {} THEN 0
    ELSE LET x == CHOOSE y \in S : TRUE IN bars[x].volume.n + SumVolumes(S \ {x})

\* C18: in every emitted bucket open is the earliest bar's open, high the
\* maximum high, low the minimum low, close the latest bar's close, volume
\* the sum of the volumes; the OHLC ordering of the bars carries over
C18_BucketAggregation ==
    (rsout.err = "none" /\ IsTimeframeLabel(timeframe)) =>
        \A k \in 1..Len(rsout.rows) :
            LET row == rsout.rows[k]
                mem == MembersOf(row)
                first == CHOOSE i \in mem : \A j \in mem : bars[i].timestamp <= bars[j].timestamp
                last == CHOOSE i \in mem : \A j \in mem : bars[i].timestamp >= bars[j].timestamp
            IN  /\ mem # {}
                /\ row.open_price = bars[first].open_price
                /\ row.close_price = bars[last].close_price
                /\ \A i \in mem : bars[i].high_price.n <= row.high_price.n
                /\ \E i \in mem : bars[i].high_price = row.high_price
                /\ \A i \in mem : bars[i].low_price.n >= row.low_price.n
                /\ \E i \in mem : bars[i].low_price = row.low_price
                /\ row.volume = Rat(SumVolumes(mem), 1)
                /\ ((\A i \in 1..Len(bars) : OhlcOrdered(bars[i])) => OhlcOrdered(row))

\* a two-minute resample whose second bucket holds two bars with different
\* opens, closes, highs and lows
C18_Witness ==
    /\ rsout.err = "none" /\ timeframe = <<"2", "m">>
    /\ Len(rsout.rows) >= 2
    /\ Cardinality(MembersOf(rsout.rows[2])) = 2
    /\ rsout.rows[2].open_price # rsout.rows[2].close_price
    /\ \E i \in MembersOf(rsout.rows[2]) : bars[i].close_price # rsout.rows[2].close_price
    /\ \E i \in MembersOf(rsout.rows[2]) : bars[i].high_price # rsout.rows[2].high_price

\* C19: "5m" over 10 consecutive aligned one-minute bars gives exactly 2
\* bars, and a bucket that lacks one of its one-minute bars is not emitted
C19_PartialBucketsDropped ==
    (rsout.err = "none" /\ timeframe = <<"5", "m">>) =>
        /\ (Len(bars) = 10 /\ \A i \in 1..10 : bars[i].timestamp = i - 1)
              => Len(rsout.rows) = 2
        /\ \A k \in 1..Len(rsout.rows) :
              \A t \in rsout.rows[k].timestamp.minute..(rsout.rows[k].timestamp.minute + 4) :
                  \E i \in 1..Len(bars) : bars[i].timestamp = t

(***************************************************************************)
(* service.py: IndicatorService over the technical_indicators table, one   *)
(* action per call.  repo.py: the payload models.                          *)
(***************************************************************************)
\* an IndicatorCreate instance: the fields IndicatorBase declares
IndicatorCreate(name, category) ==
    [indicator_name |-> name, category |-> category, description |-> None,
     formula |-> "close_price", dependencies |-> EmptyDict, parameters |-> EmptyDict]

\* a model object that also carries the exec_plan attribute line 36 reads
IndicatorWithPlan(name, category, plan) ==
    [indicator_name |-> name, category |-> category, description |-> None,
     formula |-> "close_price", dependencies |-> EmptyDict,
     parameters |-> Dict1("n", PyNum(2)), exec_plan |-> plan]

IndicatorNames == {"RSI", "SMA"}
PlannedPayloads ==
    {IndicatorWithPlan(nm, c, ExecPlan(<<Step("x", Close)>>, Name("x"))) :
        nm \in IndicatorNames, c \in {None, PyStr(<<"trend">>)}}
Payloads == {IndicatorCreate(nm, c) : nm \in IndicatorNames, c \in {None, PyStr(<<"trend">>)}}

\* uuid4 values
Ids == {"id1", "id2", "id3"}

\* model.category or ''
OrEmpty(v) == IF v = None THEN PyStr(<<>>) ELSE v

\* json.dumps(v)
JsonDumps(v) == [json |-> v]

TableRow(id, name, category) ==
    [id |-> id, indicator_name |-> name, category |-> category, description |-> PyStr(<<>>),
     formula |-> "close_price", dependencies |-> JsonDumps(EmptyDict),
     parameters |-> JsonDumps(EmptyDict), exec_plan |-> JsonDumps(EmptyDict)]

\* rows the table may hold before the calls
StoredRows == {TableRow("id1", "RSI", PyStr(<<>>)), TableRow("id2", "SMA", PyStr(<<"trend">>)),
               TableRow("id3", "EMA", PyStr(<<>>))}

InitService ==
    /\ store \in SUBSET StoredRows
    /\ svcLog = <<>>
    /\ ValIdle
    /\ EvalIdle
    /\ ExecIdle
    /\ RegIdle
    /\ RsIdle
    /\ RaceIdle
    /\ CalcIdle
    /\ ConcIdle

\* lines 27-37: the row of a model; model.exec_plan is read, an attribute
\* the payload models of repo.py do not declare
row_from_model(model, id) ==
    IF "exec_plan" \notin DOMAIN model THEN [row |-> <<>>, err |-> "AttributeError"]
    ELSE [row |-> [id |-> id, indicator_name |-> model.indicator_name,
                   category |-> OrEmpty(model.category),
                   description |-> OrEmpty(model.description),
                   formula |-> model.formula,
                   dependencies |-> JsonDumps(model.dependencies),
                   parameters |-> JsonDumps(model.parameters),
                   exec_plan |-> JsonDumps(model.exec_plan)],
          err |-> "none"]

\* lines 47-48: SELECT id ... WHERE indicator_name = name LIMIT 1
RowsNamed(name) == {r \in store : r.indicator_name = name}

\* a call as the log keeps it: the operation, its argument, whether the
\* table held a row of the name when it was made, and the outcome
Called(op, payload, present, err, id) ==
    [op |-> op, payload |-> payload, name |-> payload.indicator_name,
     present |-> present, err |-> err, id |-> id]

\* lines 47-50: the name is taken, HTTP 409
CreateDuplicate ==
    /\ Len(svcLog) < MaxCalls
    /\ \E payload \in Payloads \cup PlannedPayloads :
          /\ RowsNamed(payload.indicator_name) # {}
          /\ svcLog' = Append(svcLog, Called("create", payload, TRUE,
                                             "DuplicateName", "none"))
    /\ UNCHANGED <<store, notSvcVars>>

\* lines 47-57: the name is free; the row is built, inserted and its id returned
CreateIndicator ==
    /\ Len(svcLog) < MaxCalls
    /\ \E payload \in Payloads \cup PlannedPayloads, id \in Ids :
          /\ RowsNamed(payload.indicator_name) = {}
          /\ id \notin {r.id : r \in store}
          /\ \E built \in {row_from_model(payload, id)} :
                IF built.err # "none"
                THEN /\ store' = store
                     /\ svcLog' = Append(svcLog, Called("create", payload, FALSE,
                                                        built.err, "none"))
                ELSE /\ store' = store \cup {built.row}
                     /\ svcLog' = Append(svcLog, Called("create", payload, FALSE,
                                                        "none", id))
    /\ UNCHANGED notSvcVars

\* str.upper() of the identifiers and names the calls are made with
Upper(str) ==
    CASE str = "rsi" -> "RSI"
      [] str = "id1" -> "ID1"
      [] str = "id2" -> "ID2"
      [] str = "id3" -> "ID3"
      [] OTHER -> str

\* the text of a column no value was inserted for
EmptyText == PyStr(<<>>)

\* json.loads(text)
JsonLoads(text) == text.json

\* lines 116-127: the dict get_indicator builds from a row; dependencies and
\* parameters are the stored texts, exec_plan is parsed
RowToDict(r) ==
    [id |-> r.id, indicator_name |-> r.indicator_name, category |-> r.category,
     description |-> r.description, formula |-> r.formula,
     dependencies |-> r.dependencies, parameters |-> r.parameters,
     exec_plan |-> IF r.exec_plan = EmptyText THEN EmptyDict ELSE JsonLoads(r.exec_plan)]

\* lines 100-127: type(id_or_name) == uuid compares a type with the module
\* uuid and is never true, so id stays None and name is the upper-cased
\* argument; the rows WHERE id = NULL OR indicator_name = name; LIMIT 1
\* returns any one of them.  The set of values the call may return.
get_indicator(rows, id_or_name) ==
    LET matching == {r \in rows : r.indicator_name = Upper(id_or_name)}
    IN  IF matching = {} THEN {None} ELSE {RowToDict(r) : r \in matching}

\* an IndicatorUpdate instance: the fields that were set, None included
UpdatePayloads ==
    {[category |-> PyStr(<<"momentum">>)],
     [category |-> None, description |-> PyStr(<<"d">>)],
     [dependencies |-> Dict1("close", PyNum(1))],
     [indicator_name |-> "SMA"]}

\* v is None, for the field key of a payload (the names and formulas of the
\* payloads are strings, never None)
IsNoneField(payload, key) ==
    key \notin {"indicator_name", "formula"} /\ payload[key] = None

\* lines 71-76: merged = {**existing} overwritten by the set fields that
\* are not None
Merged(existing, payload) ==
    [key \in DOMAIN existing |->
        IF key \in DOMAIN payload /\ ~IsNoneField(payload, key)
        THEN payload[key] ELSE existing[key]]

\* lines 78-90: the row update_indicator inserts; the exec_plan column is
\* not among column_names
UpdatedRow(merged) ==
    [id |-> merged.id, indicator_name |-> merged.indicator_name,
     category |-> merged.category, description |-> merged.description,
     formula |-> merged.formula,
     dependencies |-> JsonDumps(merged.dependencies),
     parameters |-> JsonDumps(merged.parameters),
     exec_plan |-> EmptyText]

\* a call other than create as the log keeps it: the operation, its
\* arguments, the table before and after it, whether the storage failed,
\* and what it returned or raised
Outcome(op, arg, payload, before, after, failure, ret, err) ==
    [op |-> op, arg |-> arg, payload |-> payload, before |-> before, after |-> after,
     failure |-> failure, ret |-> ret, err |-> err]

\* the ids, the names and a lower-case name a caller may pass
CallArgs == Ids \cup IndicatorNames \cup {"rsi"}

\* lines 94-127
GetIndicator ==
    /\ Len(svcLog) < MaxCalls
    /\ \E arg \in CallArgs \cup {r.id : r \in store} :
       \E item \in get_indicator(store, arg) :
           svcLog' = Append(svcLog, Outcome("get", arg, None, store, store, FALSE, item, "none"))
    /\ UNCHANGED <<store, notSvcVars>>

\* lines 60-91
UpdateIndicator ==
    /\ Len(svcLog) < MaxCalls
    /\ \E arg \in CallArgs, payload \in UpdatePayloads :
       \E existing \in get_indicator(store, arg) :
           IF existing = None
           THEN /\ store' = store
                /\ svcLog' = Append(svcLog, Outcome("update", arg, payload, store, store,
                                                    FALSE, FALSE, "none"))
           ELSE \E after \in {store \cup {UpdatedRow(Merged(existing, payload))}} :
                /\ store' = after
                /\ svcLog' = Append(svcLog, Outcome("update", arg, payload, store, after,
                                                    FALSE, TRUE, "none"))
    /\ UNCHANGED notSvcVars

\* lines 161-163: the ALTER TABLE ... DELETE command runs
DeleteIndicator ==
    /\ Len(svcLog) < MaxCalls
    /\ \E arg \in Ids :
       \E after \in {{r \in store : r.id # arg}} :
           /\ store' = after
           /\ svcLog' = Append(svcLog, Outcome("delete", arg, None, store, after,
                                               FALSE, TRUE, "none"))
    /\ UNCHANGED notSvcVars

\* lines 164-166: the command raises; the handler calls logger.error, and
\* logger is the module fastapi.logger (line 7), which has no attribute
\* error, so the handler raises AttributeError before its return
DeleteStorageFailure ==
    /\ Len(svcLog) < MaxCalls
    /\ \E arg \in Ids :
           svcLog' = Append(svcLog, Outcome("delete", arg, None, store, store,
                                            TRUE, None, "AttributeError"))
    /\ UNCHANGED <<store, notSvcVars>>

NextService ==
    \/ CreateDuplicate
    \/ CreateIndicator
    \/ GetIndicator
    \/ UpdateIndicator
    \/ DeleteIndicator
    \/ DeleteStorageFailure

SpecService == InitService /\ [][NextService]_vars

(***************************************************************************)
(* Claims on the indicator service (SpecService).                          *)
(***************************************************************************)
\* C20: from a store without a record of the name, the first of two
\* create_indicator calls with that name returns an id, the second fails
\* with the duplicate-name error, and the store then holds exactly one
\* record of the name
C20_CreateTwice ==
    /\ (Len(svcLog) >= 1 /\ svcLog[1].op = "create" /\ ~svcLog[1].present)
          => (svcLog[1].err = "none" /\ svcLog[1].id \in Ids)
    /\ (/\ Len(svcLog) = 2
        /\ svcLog[1].op = "create" /\ svcLog[2].op = "create"
        /\ svcLog[1].name = svcLog[2].name
        /\ ~svcLog[1].present)
          => /\ svcLog[2].err = "DuplicateName"
             /\ Cardinality(RowsNamed(svcLog[1].name)) = 1

\* C22: create_indicator(def) followed by get_indicator(returned id)
\* returns a record, equal to def on indicator_name, category, description,
\* formula, dependencies and parameters, with an equal exec_plan
C22_RoundTrip ==
    \A i \in 1..(Len(svcLog) - 1) :
        (/\ svcLog[i].op = "create" /\ svcLog[i].err = "none"
         /\ svcLog[i + 1].op = "get" /\ svcLog[i + 1].arg = svcLog[i].id)
            => /\ svcLog[i + 1].ret # None
               /\ svcLog[i + 1].ret.indicator_name = svcLog[i].payload.indicator_name
               /\ svcLog[i + 1].ret.category = svcLog[i].payload.category
               /\ svcLog[i + 1].ret.description = svcLog[i].payload.description
               /\ svcLog[i + 1].ret.formula = svcLog[i].payload.formula
               /\ svcLog[i + 1].ret.dependencies = svcLog[i].payload.dependencies
               /\ svcLog[i + 1].ret.parameters = svcLog[i].payload.parameters
               /\ svcLog[i + 1].ret.exec_plan = svcLog[i].payload.exec_plan

\* the stored record old with the fields the payload gives (None standing
\* for "not given") written over it and every other column kept
ExpectedRow(old, payload) ==
    [key \in DOMAIN old |->
        IF key \in DOMAIN payload /\ ~IsNoneField(payload, key)
        THEN IF key \in {"dependencies", "parameters"}
             THEN JsonDumps(payload[key]) ELSE payload[key]
        ELSE old[key]]

\* C23: update_indicator(id, partial) on an existing record returns True
\* and replaces the record by the merge of the record and the payload, all
\* other columns (exec_plan, dependencies, parameters) kept; for an id with
\* no record it returns False and the table is unchanged
C23_UpdateMerges ==
    \A i \in 1..Len(svcLog) :
        svcLog[i].op = "update" =>
            IF \E r \in svcLog[i].before : r.id = svcLog[i].arg
            THEN /\ svcLog[i].ret = TRUE
                 /\ \E old \in {r \in svcLog[i].before : r.id = svcLog[i].arg} :
                        svcLog[i].after =
                            (svcLog[i].before \ {old})
                                \cup {ExpectedRow(old, svcLog[i].payload)}
            ELSE /\ svcLog[i].ret = FALSE
                 /\ svcLog[i].after = svcLog[i].before

\* C24: delete_indicator never raises - a storage failure and an id without
\* a record included, the outcome is a boolean return value, the same for
\* "not found" as for "storage failure"
C24_DeleteNeverRaises ==
    /\ \A i \in 1..Len(svcLog) :
          svcLog[i].op = "delete" => (svcLog[i].err = "none" /\ svcLog[i].ret \in BOOLEAN)
    /\ \A i, j \in 1..Len(svcLog) :
          (/\ svcLog[i].op = "delete" /\ svcLog[j].op = "delete"
           /\ ~svcLog[i].failure /\ ~\E r \in svcLog[i].before : r.id = svcLog[i].arg
           /\ svcLog[j].failure)
              => svcLog[i].ret = svcLog[j].ret

(***************************************************************************)
(* service.py: two concurrent create_indicator calls on one table.  A call *)
(* reads the table at line 48 and writes it at line 54; the calls          *)
(* interleave between the two.                                             *)
(***************************************************************************)
Creators == {1, 2}

\* a call at line 47 with its payload
Calling(payload) == [pc |-> "check", payload |-> payload, row |-> <<>>, err |-> "none", id |-> "none"]

InitRace ==
    /\ store \in SUBSET StoredRows
    /\ creators \in [Creators -> {Calling(payload) : payload \in Payloads \cup PlannedPayloads}]
    /\ svcLog = <<>>
    /\ ValIdle
    /\ EvalIdle
    /\ ExecIdle
    /\ RegIdle
    /\ RsIdle
    /\ CalcIdle
    /\ ConcIdle

\* the ids uuid4 has not given out
FreshIds == (Ids \ {r.id : r \in store}) \ {creators[c].row.id : c \in {d \in Creators : creators[d].pc = "insert"}}

\* lines 47-52: the SELECT on the name, HTTP 409 when it returns a row,
\* otherwise the row is built
RaceCheck(c) ==
    /\ creators[c].pc = "check"
    /\ \E id \in FreshIds :
       \E built \in {row_from_model(creators[c].payload, id)} :
           creators' =
               [creators EXCEPT ![c] =
                   IF RowsNamed(creators[c].payload.indicator_name) # {}
                   THEN [@ EXCEPT !.pc = "done", !.err = "DuplicateName"]
                   ELSE IF built.err # "none"
                   THEN [@ EXCEPT !.pc = "done", !.err = built.err]
                   ELSE [@ EXCEPT !.pc = "insert", !.row = built.row]]
    /\ UNCHANGED <<store, notRaceVars>>

\* lines 54-57: the INSERT, and the id is returned
RaceInsert(c) ==
    /\ creators[c].pc = "insert"
    /\ store' = store \cup {creators[c].row}
    /\ creators' = [creators EXCEPT ![c] = [@ EXCEPT !.pc = "done", !.id = creators[c].row.id]]
    /\ UNCHANGED notRaceVars

NextRace == \E c \in Creators : RaceCheck(c) \/ RaceInsert(c)

SpecRace == InitRace /\ [][NextRace]_vars

\* the call returned an id
Succeeded(c) == creators[c].pc = "done" /\ creators[c].err = "none"

MaxPoints == 3

\* the floats an evaluation leaves in its output
FloatValues == {Rat(0, 1), Rat(3, 2), Rat(-7, 1), Inf, NegInf, NaN}

\* what execute_indicator hands back at line 193 for a frame of `rows` bars:
\* a series over the bars, or one number
EvalOutputs ==
    {[result |-> Series(xs), rows |-> Len(xs)] :
        xs \in UNION {[1..n -> FloatValues] : n \in 1..MaxPoints}}
    \cup {[result |-> Scalar(x, np), rows |-> n] :
            x \in FloatValues, np \in BOOLEAN, n \in 1..MaxPoints}

\* line 194, pd.Series(result, dtype="float64"): a series keeps its values,
\* a number becomes a series of one value
ToFloat64(result) == IF result.k = "series" THEN result.xs ELSE <<result.x>>

\* a boundary that leaves the infinities in place
ReplaceInf_Kept(xs) == xs

\* line 195, result.replace([np.inf, -np.inf], np.nan)
ReplaceInf(xs) == [i \in 1..Len(xs) |-> IF IsInf(xs[i]) THEN NaN ELSE xs[i]]

\* line 195, .where(pd.notna(result), None): the replaced value where the
\* float64 result is not NaN; elsewhere None when pandas casts the series to
\* object, NaN when it keeps float64
WhereNotna(clean, result, asObject) ==
    [i \in 1..Len(clean) |->
        IF ~IsNaN(result[i]) THEN Scalar(clean[i], TRUE)
        ELSE IF asObject THEN None ELSE Scalar(NaN, TRUE)]

\* pd.isna(val)
PdIsna(val) == val.k = "num" /\ IsNaN(val.x)

\* lines 199-204: None for a missing value, float(val) otherwise (a float64
\* series holds no list or tuple)
BoundaryValue(val) == IF val.k = "None" \/ PdIsna(val) THEN None ELSE Scalar(val.x, FALSE)

ShorterOf(m, n) == IF m < n THEN m ELSE n

\* lines 197-206: zip(df["timestamp"], clean_series), one entry for each
\* timestamp that has a value
ResultWithTs(out, asObject) ==
    [i \in 1..ShorterOf(out.rows, Len(ToFloat64(out.result))) |->
        BoundaryValue(WhereNotna(ReplaceInf(ToFloat64(out.result)), ToFloat64(out.result), asObject)[i])]

InitCalc ==
    /\ calcIn \in EvalOutputs
    /\ calcOut = <<>>
    /\ ValIdle
    /\ EvalIdle
    /\ ExecIdle
    /\ RegIdle
    /\ RsIdle
    /\ SvcIdle
    /\ RaceIdle
    /\ ConcIdle

\* lines 194-212
CalculateBoundary ==
    /\ calcOut = <<>>
    /\ \E asObject \in BOOLEAN :
           calcOut' = [indicator |-> "RSI", result |-> ResultWithTs(calcIn, asObject)]
    /\ UNCHANGED <<calcIn, notCalcVars>>

NextCalc == CalculateBoundary

SpecCalc == InitCalc /\ [][NextCalc]_vars

\* the float the evaluation produced for the i-th timestamp
OutputAt(i) == IF calcIn.result.k = "series" THEN calcIn.result.xs[i] ELSE calcIn.result.x

\* C25: at the output boundary of calculate_indicator every evaluation
\* output that is +inf, -inf or NaN is returned as null for its timestamp,
\* and every finite output is returned as that number
C25_NonFiniteBecomesNull ==
    calcOut # <<>> =>
        /\ Len(calcOut.result) >= 1
        /\ \A i \in 1..Len(calcOut.result) :
              calcOut.result[i] =
                  IF IsFinite(OutputAt(i)) THEN Scalar(OutputAt(i), FALSE) ELSE None

\* a series holding an infinity, a NaN and a finite value went through
C25_Witness ==
    /\ calcOut # <<>>
    /\ calcIn.result.k = "series"
    /\ Len(calcOut.result) = 3
    /\ IsInf(OutputAt(1))
    /\ IsNaN(OutputAt(2))
    /\ IsFinite(OutputAt(3))

(***************************************************************************)
(* compute.py: two execute_indicator invocations running concurrently on   *)
(* one registry.  An invocation is interleaved with the other between its  *)
(* loop iterations.  threads.calls holds each invocation's locals,         *)
(* threads.envs the env dicts, shared the objects both invocations are     *)
(* handed.                                                                 *)
(***************************************************************************)
Invocations == {1, 2}

YOverClose == ListComp(Name("y"), <<Comprehension(NameStore("y"), Close, <<>>)>>)

\* exec plans whose steps bind, read and leak the names x and y
CPlans ==
    {ExecPlan(<<Step("x", Call(Name("sma"), <<Close, Name("n")>>, <<>>))>>, Name("x")),
     ExecPlan(<<Step("x", BinOp("Div", Close, Name("n"))), Step("y", BinOp("Add", Name("x"), Close))>>,
              BinOp("Add", Name("x"), Name("y"))),
     ExecPlan(<<Step("y", YOverClose)>>, Name("x")),
     ExecPlan(<<Step("x", YOverClose)>>, Name("y")),
     ExecPlan(<<>>, Name("y")),
     NoExecPlan}

CDefinitions == {[parameters |-> ps, exec_plan |-> plan] : ps \in XParameters, plan \in CPlans}

\* an invocation at line 17
Invoked(def, overrides) ==
    [given |-> def, params |-> overrides, pc |-> "start", i |-> 1, out |-> Pending]

InitConc ==
    /\ \E defs \in [Invocations -> CDefinitions] :
           /\ shared = [registry |-> XRegistry, definitions |-> defs]
           /\ \E overrides \in [Invocations -> XOverrides] :
                  threads = [calls |-> [t \in Invocations |-> Invoked(defs[t], overrides[t])],
                             envs |-> [t \in Invocations |-> EmptyDict]]
    /\ ValIdle
    /\ EvalIdle
    /\ ExecIdle
    /\ RegIdle
    /\ RsIdle
    /\ SvcIdle
    /\ RaceIdle
    /\ CalcIdle

\* one env dict for every invocation
EnvOwner_Engine(t) == 1

\* line 21, env = {...}: the dict is a local of the invocation
EnvOwner(t) == t

\* the env dict invocation t works on
EnvOf(t) == threads.envs[EnvOwner(t)]

\* the invocation's locals and its env dict after a stretch of the method
Advance(t, call, env) ==
    threads' = [calls |-> [threads.calls EXCEPT ![t] = call],
                envs |-> [threads.envs EXCEPT ![EnvOwner(t)] = env]]

\* lines 17-36 of one invocation: the missing plan, the seeding of env and
\* the guard on None values
ThreadBegin(t) ==
    /\ threads.calls[t].pc = "start"
    /\ \E def \in {shared.definitions[t]} :
       \E seeded \in {SeededEnv(def, threads.calls[t].params)} :
           IF def.exec_plan.falsy
           THEN Advance(t, [threads.calls[t] EXCEPT !.pc = "failed",
                                                    !.out = Failed("MissingExecPlan", "begin")],
                        EnvOf(t))
           ELSE IF HasNoneValue(seeded)
           THEN Advance(t, [threads.calls[t] EXCEPT !.pc = "failed",
                                                    !.out = Failed("UnboundLocalError", "begin")],
                        seeded)
           ELSE Advance(t, [threads.calls[t] EXCEPT
                               !.pc = IF def.exec_plan.steps = <<>> THEN "formula" ELSE "steps"],
                        seeded)
    /\ UNCHANGED <<shared, notConcVars>>

\* lines 37-40 of one invocation: one iteration of "for step in steps"
ThreadStep(t) ==
    /\ threads.calls[t].pc = "steps"
    /\ \E steps \in {shared.definitions[t].exec_plan.steps} :
       \E o \in {ValidateThenEval(steps[threads.calls[t].i].expr, EnvOf(t), shared.registry)} :
           IF o.err # "none"
           THEN Advance(t, [threads.calls[t] EXCEPT !.pc = "failed", !.out = Failed(o.err, o.at)],
                        o.env)
           ELSE Advance(t, [threads.calls[t] EXCEPT
                               !.i = @ + 1,
                               !.pc = IF threads.calls[t].i = Len(steps) THEN "formula" ELSE "steps"],
                        Put(o.env, steps[threads.calls[t].i].name, o.val))
    /\ UNCHANGED <<shared, notConcVars>>

\* lines 42-44 of one invocation: the final formula
ThreadFormula(t) ==
    /\ threads.calls[t].pc = "formula"
    /\ \E o \in {ValidateThenEval(shared.definitions[t].exec_plan.formula, EnvOf(t), shared.registry)} :
           Advance(t, [threads.calls[t] EXCEPT
                          !.pc = IF o.err # "none" THEN "failed" ELSE "done",
                          !.out = IF o.err # "none" THEN Failed(o.err, o.at) ELSE Returned(o.val)],
                   o.env)
    /\ UNCHANGED <<shared, notConcVars>>

NextConc == \E t \in Invocations : ThreadBegin(t) \/ ThreadStep(t) \/ ThreadFormula(t)

SpecConc == InitConc /\ [][NextConc]_vars

\* what an invocation ends with: the value or error, and its env
Ended(out, env) == [out |-> out, env |-> env]

RECURSIVE AloneFrom(_, _, _)
RECURSIVE AloneAfter(_, _, _, _)
\* the invocation run alone from step i on
AloneFrom(plan, env, i) ==
    IF i > Len(plan.steps)
    THEN AloneAfter(ValidateThenEval(plan.formula, env, XRegistry), plan, env, i)
    ELSE AloneAfter(ValidateThenEval(plan.steps[i].expr, env, XRegistry), plan, env, i)

AloneAfter(o, plan, env, i) ==
    IF o.err # "none" THEN Ended(Failed(o.err, o.at), o.env)
    ELSE IF i > Len(plan.steps) THEN Ended(Returned(o.val), o.env)
    ELSE AloneFrom(plan, Put(o.env, plan.steps[i].name, o.val), i + 1)

\* execute_indicator(def, DF, XRegistry, overrides) with no other invocation
\* running
RunAlone(def, overrides) ==
    IF def.exec_plan.falsy THEN Ended(Failed("MissingExecPlan", "begin"), EmptyDict)
    ELSE IF HasNoneValue(SeededEnv(def, overrides))
    THEN Ended(Failed("UnboundLocalError", "begin"), SeededEnv(def, overrides))
    ELSE AloneFrom(def.exec_plan, SeededEnv(def, overrides), 1)

\* invocation t compared with its run alone: its env holds no name the run
\* alone does not bind, and once it has ended it ends as the run alone does
AsAlone(t, alone) ==
    /\ DOMAIN threads.envs[t] \subseteq DOMAIN alone.env
    /\ threads.calls[t].pc \in {"done", "failed"} => threads.calls[t].out = alone.out

\* C26: in every interleaving of two execute_indicator invocations on one
\* registry each invocation works on its own env, sees no name the other
\* bound, leaves the registry and the definitions as they were, and returns
\* what it returns when run alone
C26_IndependentEvaluations ==
    shared # <<>> =>
        /\ shared.registry = XRegistry
        /\ \A t \in Invocations :
              /\ shared.definitions[t] = threads.calls[t].given
              /\ AsAlone(t, RunAlone(threads.calls[t].given, threads.calls[t].params))

\* both invocations returned, on one registry, and the first bound a name
\* that the second never held
C26_Witness ==
    /\ shared # <<>>
    /\ threads.calls[1].pc = "done"
    /\ threads.calls[2].pc = "done"
    /\ "y" \in DOMAIN threads.envs[1]
    /\ "y" \notin DOMAIN threads.envs[2]
    /\ threads.calls[1].out # threads.calls[2].out

====
